---- MODULE Spec2Model ----
(***************************************************************************)
(* BinaryVis: the byte-budgeted LRU result cache (src/core/cache.rs), the  *)
(* windowed uniform sampler (src/sampling/uniform.rs), the chunked         *)
(* streaming session (src/server/websocket.rs) and the client's            *)
(* DataManager (frontend/src/core).                                        *)
(*                                                                         *)
(* The specifications of the module:                                       *)
(*   SpecCache   - sequences of put / get / clear on one Cache             *)
(*   SpecSampler - one run of UniformSampler::sample, step by step         *)
(*   SpecStream  - one session streaming samples to one client             *)
(*   SpecSession - one handle_socket with its two tasks, the cache and the *)
(*                 file manager, fed arbitrary frames                      *)
(*   SpecShared  - two sessions sharing the cache and its lock             *)
(*   SpecClient  - the WebSocketClient of the frontend                     *)
(*   SpecStalled - two sessions with their frames queued, tasks scheduled  *)
(*   SpecHttp    - the REST handler sample_file                            *)
(*   SpecLocked  - concurrent callers of the cache, two writes per method  *)
(*   SpecStreamFair - SpecStream with every duty scheduled                 *)
(*   SpecDataManager - the DataManager called directly                     *)
(*   SpecFiles   - SpecSession while stored files are deleted              *)
(*   SpecApp     - BinaryVisApp: file selection, sample requests, errors   *)
(***************************************************************************)
EXTENDS Integers, Sequences, FiniteSets, TLC

\* ------------------------------------------------------------------------
\* Bounds
\* ------------------------------------------------------------------------
\* Cache capacity in bytes (Config.cache_size), scaled down.
Capacity == 4
\* Longest byte vector offered to put; larger than Capacity on purpose.
MaxPutLen == 5
\* Largest file handed to the sampler.
MaxDataSize == 8
\* Largest target_size handed to the sampler.
MaxTarget == 6
\* Longest sample handed to stream_sample.
MaxSample == 7
\* CHUNK_SIZE of stream_sample (256 * 1024 in the source), scaled down so
\* that a sample of MaxSample bytes spans several chunks.
CHUNK_SIZE == 2
\* Capacity of the per-session mpsc channel (100 in the source), scaled down
\* so that the sender meets a full channel.
TX_CAPACITY == 2
\* Frames the peer of a lone session sends at most.
MaxFrames == 2
\* Calls of WebSocketClient.connect and messages handed to ws.send at most.
MaxConnects == 2
MaxSends == 2

\* Config::default max_sample_size (128 MiB) and the smallest sample size
\* the API documents (1 MiB), both scaled to the files of the model.
max_sample_size == 3
min_sample_size == 2

\* Cache keys: the three keys of test_cache_lru.
Keys == {1, 2, 3}

\* Option values: absent is the empty sequence, present wraps the value.
None == << >>
Some(x) == << x >>

Min(a, b) == IF a <= b THEN a ELSE b

VARIABLES
  store,        \* Cache.store: [map, order, total_size]
  cpre,         \* the store before the last completed cache operation
  cop,          \* the last completed cache operation and its return value
  data,         \* sampler input: the mapped bytes
  target_size,  \* sampler input
  spc,          \* position inside UniformSampler::sample
  windows,      \* the local Vec<usize> of window offsets
  chunks,       \* the extracted slices
  sresult,      \* what sample returned (or how it died)
  rpc,          \* recv_task: "recv" (awaiting a frame) or "stream"
  inbound,      \* frames sent by the client, not yet read by recv_task
  sample,       \* stream_sample: the Vec<u8> being streamed
  offset,       \* stream_sample: the local offset
  tx,           \* the mpsc channel between recv_task and send_task
  wire,         \* frames written by send_task, not yet received
  dm,           \* the client's DataManager: [buffer, totalSize, receivedSize]
  button,       \* ControlPanel: the sample button is enabled
  cstate,       \* the client: "ok", or "failed" after an uncaught throw
  complete,     \* addChunk has returned true since the last clear
  served,       \* the sample the session obtained for the current request
  files,        \* FileManager: the stored file of each id, or None
  lock,         \* Cache.store Mutex: 0 when free, else the session holding it
  file_id,      \* per session: the :id of /ws/:id
  quota,        \* per session: frames the peer may still send
  receiver,     \* per session: frames sent by the peer, not yet read
  hsock,        \* per session: handle_socket "running" or "returned"
  recv_task,    \* per session: position of recv_task
  send_task,    \* per session: send_task "running" or "ended"
  request,      \* per session: the SampleRequest being handled
  streaming,    \* per session: stream_sample's [sample, offset]
  channel,      \* per session: the frames queued in the mpsc channel
  sender,       \* per session: the frames written to the socket, in order
  history,      \* per session: the sample requests that got their sample
  cause,        \* per session: why recv_task ended
  wsock,        \* WebSocketClient.ws: None or the socket it refers to
  messageQueue, \* WebSocketClient.messageQueue
  calls,        \* WebSocketClient: connect() calls made so far
  sockets,      \* the readyState of every WebSocket constructed so far
  transmitted,  \* WebSocketClient: messages handed to ws.send so far
  last,         \* WebSocketClient: the last method called and how it ended
  http,         \* sample_file: the last request handled and its response
  caller,       \* per caller of the cache: the call it is in
  dmcall,       \* DataManager: the last method called, its state before
  arrived,      \* DataManager: the chunks passed to addChunk since initialize
  app,          \* BinaryVisApp: fileId, fingerprint, wsClient, button, renderer
  clients,      \* the WebSocketClient objects handleSample has created
  selects,      \* the handleFileSelect calls made so far
  event         \* BinaryVisApp: the last callback that ran

cacheVars == << store, cpre, cop >>
samplerVars == << data, target_size, spc, windows, chunks, sresult >>
streamVars == << rpc, inbound, sample, offset, tx, wire, dm, button, cstate,
                 complete, served >>
sessionVars == << files, lock, file_id, quota, receiver, hsock, recv_task,
                  send_task, request, streaming, channel, sender, history,
                  cause >>
clientVars == << wsock, messageQueue, calls, sockets, transmitted, last >>
handlerVars == << http, caller >>
frontVars == << dmcall, arrived, app, clients, selects, event >>
vars == << cacheVars, samplerVars, streamVars, sessionVars, clientVars,
          handlerVars, frontVars >>

\* ------------------------------------------------------------------------
\* ResultCache (src/core/cache.rs)
\* ------------------------------------------------------------------------
\* Cache::new: empty map, empty order queue, total_size 0.
new_store == [map |-> << >>, order |-> << >>, total_size |-> 0]

\* A retain that removes nothing.
retain_nothing(order, key) == order

\* VecDeque::retain(|&k| k != key)
retain(order, key) == SelectSeq(order, LAMBDA k : k # key)

\* HashMap::remove
map_remove(map, key) == [k \in (DOMAIN map) \ {key} |-> map[k]]

\* HashMap::insert
map_insert(map, key, entry) ==
  [k \in (DOMAIN map) \cup {key} |-> IF k = key THEN entry ELSE map[k]]

\* A get that returns the data and leaves the order queue alone.
get_no_promote(s, key) ==
  IF key \in DOMAIN s.map
  THEN [store |-> s, ret |-> Some(s.map[key].data)]
  ELSE [store |-> s, ret |-> None]

\* Cache::get: on a hit, move key to the back of the order queue and return
\* a clone of the data; on a miss return None.
get(s, key) ==
  IF key \in DOMAIN s.map
  THEN [store |-> [s EXCEPT !.order = Append(retain(s.order, key), key)],
        ret |-> Some(s.map[key].data)]
  ELSE [store |-> s, ret |-> None]

\* A first step that forgets to release the size of the old entry.
put_remove_old_size_kept(s, key) ==
  IF key \in DOMAIN s.map
  THEN [map |-> map_remove(s.map, key),
        order |-> retain(s.order, key),
        total_size |-> s.total_size]
  ELSE s

\* put, first step: "if let Some(old_entry) = store.map.remove(&key)".
put_remove_old(s, key) ==
  IF key \in DOMAIN s.map
  THEN [map |-> map_remove(s.map, key),
        order |-> retain(s.order, key),
        total_size |-> s.total_size - s.map[key].size]
  ELSE s

\* A put whose loop pops the back of the queue (most recently used first).
RECURSIVE put_evict_mru(_, _)
put_evict_mru(s, size) ==
  IF s.total_size + size > Capacity /\ s.order # << >>
  THEN LET evict_key == s.order[Len(s.order)]
           popped == [s EXCEPT !.order = SubSeq(s.order, 1, Len(s.order) - 1)]
       IN  put_evict_mru(IF evict_key \in DOMAIN s.map
                         THEN [popped EXCEPT
                                 !.map = map_remove(s.map, evict_key),
                                 !.total_size = s.total_size - s.map[evict_key].size]
                         ELSE popped,
                         size)
  ELSE s

\* put, second step: the while loop popping the front of the order queue.
RECURSIVE put_evict(_, _)
put_evict(s, size) ==
  IF s.total_size + size > Capacity /\ s.order # << >>
  THEN LET evict_key == Head(s.order)
           popped == [s EXCEPT !.order = Tail(s.order)]
       IN  put_evict(IF evict_key \in DOMAIN s.map
                     THEN [popped EXCEPT
                             !.map = map_remove(s.map, evict_key),
                             !.total_size = s.total_size - s.map[evict_key].size]
                     ELSE popped,
                     size)
  ELSE s

\* A put that inserts without the final capacity test.
put_insert_unchecked(s, key, bytes) ==
  [map |-> map_insert(s.map, key, [data |-> bytes, size |-> Len(bytes)]),
   order |-> Append(s.order, key),
   total_size |-> s.total_size + Len(bytes)]

\* put, third step: insert only if it fits.
put_insert(s, key, bytes) ==
  LET size == Len(bytes) IN
  IF s.total_size + size <= Capacity
  THEN [map |-> map_insert(s.map, key, [data |-> bytes, size |-> size]),
        order |-> Append(s.order, key),
        total_size |-> s.total_size + size]
  ELSE s

\* Cache::put
put(s, key, bytes) ==
  put_insert(put_evict(put_remove_old(s, key), Len(bytes)), key, bytes)

\* A clear that leaves the size counter alone.
clear_size_kept(s) == [map |-> << >>, order |-> << >>, total_size |-> s.total_size]

\* Cache::clear
clear(s) == [map |-> << >>, order |-> << >>, total_size |-> 0]

\* Cache::stats
stats(s) == [entries |-> Cardinality(DOMAIN s.map),
             total_size |-> s.total_size,
             capacity |-> Capacity]

\* Byte vectors offered to put: every length up to MaxPutLen, filled with
\* one of two byte values.
Fill(n, b) == [i \in 1..n |-> b]
PutData == { Fill(n, b) : n \in 0..MaxPutLen, b \in {17, 42} }

NoOp == [name |-> "new", key |-> 0, bytes |-> << >>, ret |-> None]

CachePut ==
  \E key \in Keys, bytes \in PutData :
    /\ store' = put(store, key, bytes)
    /\ cpre' = store
    /\ cop' = [name |-> "put", key |-> key, bytes |-> bytes, ret |-> None]
    /\ UNCHANGED << samplerVars, streamVars, sessionVars, clientVars, handlerVars, frontVars >>

CacheGet ==
  \E key \in Keys :
    /\ store' = get(store, key).store
    /\ cpre' = store
    /\ cop' = [name |-> "get", key |-> key, bytes |-> << >>,
               ret |-> get(store, key).ret]
    /\ UNCHANGED << samplerVars, streamVars, sessionVars, clientVars, handlerVars, frontVars >>

CacheClear ==
  /\ store' = clear(store)
  /\ cpre' = store
  /\ cop' = [name |-> "clear", key |-> 0, bytes |-> << >>, ret |-> None]
  /\ UNCHANGED << samplerVars, streamVars, sessionVars, clientVars, handlerVars, frontVars >>

SamplerIdle ==
  /\ data = << >>
  /\ target_size = 0
  /\ spc = "idle"
  /\ windows = << >>
  /\ chunks = << >>
  /\ sresult = None

CacheIdle ==
  /\ store = new_store
  /\ cpre = new_store
  /\ cop = NoOp

\* DataManager constructor: no buffer, sizes 0.
new_dm == [buffer |-> None, totalSize |-> 0, receivedSize |-> 0]

StreamIdle ==
  /\ rpc = "idle"
  /\ inbound = << >>
  /\ sample = << >>
  /\ offset = 0
  /\ tx = << >>
  /\ wire = << >>
  /\ dm = new_dm
  /\ button = FALSE
  /\ cstate = "idle"
  /\ complete = FALSE
  /\ served = << >>

\* The sessions of the model.
Sessions == {1, 2}

\* No connection has been accepted.
SessionIdle ==
  /\ files = << >>
  /\ lock = 0
  /\ file_id = [s \in Sessions |-> 0]
  /\ quota = [s \in Sessions |-> 0]
  /\ receiver = [s \in Sessions |-> << >>]
  /\ hsock = [s \in Sessions |-> "idle"]
  /\ recv_task = [s \in Sessions |-> "idle"]
  /\ send_task = [s \in Sessions |-> "idle"]
  /\ request = [s \in Sessions |-> None]
  /\ streaming = [s \in Sessions |-> << >>]
  /\ channel = [s \in Sessions |-> << >>]
  /\ sender = [s \in Sessions |-> << >>]
  /\ history = [s \in Sessions |-> << >>]
  /\ cause = [s \in Sessions |-> "none"]

\* No WebSocketClient has been constructed.
ClientIdle ==
  /\ wsock = None
  /\ messageQueue = << >>
  /\ calls = 0
  /\ sockets = << >>
  /\ transmitted = << >>
  /\ last = [op |-> "new", threw |-> FALSE, open |-> FALSE,
             sent |-> << >>, queued |-> << >>]

\* The callers of the cache: two request handlers running at once.
Callers == {1, 2}

\* No HTTP request has been handled and no caller is inside the cache.
HandlerIdle ==
  /\ http = [op |-> "none", id |-> 0, sample_size |-> 0, status |-> 0,
             data |-> << >>, looked_up |-> FALSE, sampled |-> FALSE]
  /\ caller = [c \in Callers |-> [pc |-> "idle"]]

\* The frontend's DataManager has not been called.
no_call == [name |-> "none", offset |-> 0, chunk |-> << >>, total |-> 0,
            ret |-> "none", before |-> new_dm]

\* BinaryVisApp constructor and init(): no file, no client, the sample
\* button disabled (it is rendered with the disabled attribute), the
\* renderer not animating.
new_app == [fileId |-> 0, currentFileFingerprint |-> 0, wsClient |-> 0,
            windowWsClient |-> 0, sampleButton |-> FALSE, animation |-> FALSE,
            alerted |-> FALSE]

no_event == [name |-> "none", index |-> 0, before |-> new_dm]

AppIdle ==
  /\ app = new_app
  /\ clients = << >>
  /\ selects = << >>
  /\ event = no_event

ManagerIdle ==
  /\ dmcall = no_call
  /\ arrived = << >>

FrontIdle ==
  /\ ManagerIdle
  /\ AppIdle

InitCache ==
  /\ CacheIdle
  /\ SamplerIdle
  /\ StreamIdle
  /\ SessionIdle
  /\ ClientIdle
  /\ HandlerIdle
  /\ FrontIdle
NextCache == CachePut \/ CacheGet \/ CacheClear

SpecCache == InitCache /\ [][NextCache]_vars

\* ------------------------------------------------------------------------
\* Properties of the cache (SpecCache)
\* ------------------------------------------------------------------------
\* The sum of the size fields of the entries of map stored under the keys S.
RECURSIVE SizeOf(_, _)
SizeOf(map, S) ==
  IF S = {} THEN 0
  ELSE LET k == CHOOSE x \in S : TRUE
       IN  map[k].size + SizeOf(map, S \ {k})

\* The keys the last operation removed from the map, its own key excepted.
Evicted == ((DOMAIN cpre.map) \ {cop.key}) \ (DOMAIN store.map)

\* The recency order of the other entries before the last operation,
\* least recently used first.
LruBefore == SelectSeq(cpre.order, LAMBDA k : k # cop.key)

\* The bytes held before the last operation by the entries other than key.
OthersBefore == SizeOf(cpre.map, (DOMAIN cpre.map) \ {cop.key})

\* The bytes held by the first j entries of the recency order.
PrefixSize(j) == SizeOf(cpre.map, { LruBefore[i] : i \in 1..j })

\* C1: after every completed put, get or clear, total_size is the sum of
\* the sizes of the stored entries, every size is the length of its data,
\* and total_size is at most the capacity.
C1_TotalSizeWithinCapacity ==
  /\ store.total_size = SizeOf(store.map, DOMAIN store.map)
  /\ \A k \in DOMAIN store.map : store.map[k].size = Len(store.map[k].data)
  /\ store.total_size <= Capacity

\* C1 witness: a put that had to evict has filled the cache to its capacity
\* with two entries.
C1_Witness ==
  /\ cop.name = "put"
  /\ Evicted # {}
  /\ Cardinality(DOMAIN store.map) >= 2
  /\ store.total_size = Capacity

\* C2 as claimed: a put of more bytes than the capacity leaves
\* stats().entries unchanged and a following get of that key is absent.
C2_OversizedPutLeavesEntries ==
  (cop.name = "put" /\ Len(cop.bytes) > Capacity) =>
    /\ stats(store).entries = stats(cpre).entries
    /\ get(store, cop.key).ret = None

\* C3: a put that fits the capacity evicts exactly the shortest prefix of
\* the least-recently-used order that makes room, and stores its entry; with
\* two entries of a size h under keys 1 and 2, where two such entries fit
\* and three do not, a put of h bytes under key 3 leaves 1 absent and 2, 3
\* present.
C3_EvictsShortestLruPrefix ==
  (cop.name = "put" /\ Len(cop.bytes) <= Capacity) =>
    /\ \E need \in 0..Len(LruBefore) :
         /\ OthersBefore - PrefixSize(need) + Len(cop.bytes) <= Capacity
         /\ \A j \in 0..(need - 1) :
              OthersBefore - PrefixSize(j) + Len(cop.bytes) > Capacity
         /\ Evicted = { LruBefore[i] : i \in 1..need }
    /\ cop.key \in DOMAIN store.map
    /\ store.map[cop.key].data = cop.bytes
    /\ \A h \in 1..Capacity :
         ( /\ 2 * h <= Capacity
           /\ 3 * h > Capacity
           /\ cpre.order = << 1, 2 >>
           /\ cpre.map[1].size = h
           /\ cpre.map[2].size = h
           /\ cop.key = 3
           /\ Len(cop.bytes) = h )
         => /\ get(store, 1).ret = None
            /\ get(store, 2).ret # None
            /\ get(store, 3).ret # None

\* C3 witness: a put that fits has evicted the least recently used entry
\* and kept a more recently used one.
C3_Witness ==
  /\ cop.name = "put"
  /\ Len(cop.bytes) <= Capacity
  /\ Len(LruBefore) >= 2
  /\ Evicted = { LruBefore[1] }
  /\ LruBefore[2] \in DOMAIN store.map

\* The order queue without key.
Without(order, key) == SelectSeq(order, LAMBDA k : k # key)

\* How often key occurs in the order queue.
Occurrences(order, key) == Cardinality({ i \in 1..Len(order) : order[i] = key })

\* C22: a get hit returns the bytes stored for key, moves key to the
\* most-recently-used end of the order and keeps the other keys in their
\* order, and leaves the entries, their bytes and total_size unchanged; a
\* get miss changes nothing.
C22_GetPromotesOnly ==
  cop.name = "get" =>
    IF cop.key \in DOMAIN cpre.map
    THEN /\ cop.ret = Some(cpre.map[cop.key].data)
         /\ store.map = cpre.map
         /\ store.total_size = cpre.total_size
         /\ store.order # << >>
         /\ store.order[Len(store.order)] = cop.key
         /\ Occurrences(store.order, cop.key) = 1
         /\ Without(store.order, cop.key) = Without(cpre.order, cop.key)
    ELSE /\ cop.ret = None
         /\ store = cpre

\* C22 witness: a get hit on the least recently used of three entries.
C22_Witness ==
  /\ cop.name = "get"
  /\ cop.ret # None
  /\ Len(cpre.order) = 3
  /\ cpre.order[1] = cop.key
  /\ store.order[3] = cop.key

\* C23: a put of at most capacity bytes on a key that holds an entry
\* leaves one entry for the key, holding the new bytes; total_size counts
\* the new length for the key and the sizes of the other entries left, and
\* the key is the most recently used one.
C23_ReplaceWholesale ==
  (cop.name = "put" /\ cop.key \in DOMAIN cpre.map
     /\ Len(cop.bytes) <= Capacity) =>
    /\ cop.key \in DOMAIN store.map
    /\ store.map[cop.key] = [data |-> cop.bytes, size |-> Len(cop.bytes)]
    /\ \A k \in (DOMAIN store.map) \ {cop.key} : store.map[k] = cpre.map[k]
    /\ store.total_size =
         Len(cop.bytes) + SizeOf(store.map, (DOMAIN store.map) \ {cop.key})
    /\ Occurrences(store.order, cop.key) = 1
    /\ store.order[Len(store.order)] = cop.key

\* C23 witness: an entry that was not the most recently used one has been
\* replaced by a longer one of other bytes, next to an entry that stayed.
C23_Witness ==
  /\ cop.name = "put"
  /\ cop.key \in DOMAIN cpre.map
  /\ cpre.order[Len(cpre.order)] # cop.key
  /\ Len(cop.bytes) > cpre.map[cop.key].size
  /\ cop.key \in DOMAIN store.map
  /\ store.map[cop.key].data = cop.bytes
  /\ Cardinality(DOMAIN store.map) >= 2

\* C24: after clear, stats reports no entry and no byte, every get is
\* absent and every put behaves as on a new cache; the capacity stats
\* reports is the same before and after every operation.
C24_ClearEmpties ==
  /\ cop.name = "clear" =>
       /\ stats(store).entries = 0
       /\ stats(store).total_size = 0
       /\ \A k \in Keys : get(store, k).ret = None
       /\ \A k \in Keys : \A bytes \in PutData :
            put(store, k, bytes) = put(new_store, k, bytes)
  /\ stats(store).capacity = stats(cpre).capacity
  /\ stats(store).capacity = stats(new_store).capacity

\* C24 witness: a cache of two entries has been cleared.
C24_Witness ==
  /\ cop.name = "clear"
  /\ Cardinality(DOMAIN cpre.map) >= 2
  /\ cpre.total_size > 0
  /\ store.map = << >>

\* C26: after every completed operation the order queue holds exactly the
\* keys of the map, each once.
C26_OrderMatchesMap ==
  /\ { store.order[i] : i \in 1..Len(store.order) } = DOMAIN store.map
  /\ Len(store.order) = Cardinality(DOMAIN store.map)

\* C26 witness: a put has replaced the entry of its key and evicted
\* another entry while a third one stayed.
C26_Witness ==
  /\ cop.name = "put"
  /\ cop.key \in DOMAIN cpre.map
  /\ Evicted # {}
  /\ Len(store.order) = 2

\* ------------------------------------------------------------------------
\* UniformSampler::sample (src/sampling/uniform.rs)
\* ------------------------------------------------------------------------
\* (target_size as f64).sqrt() as usize: the floor of the square root.
isqrt(n) == CHOOSE r \in 0..n : r * r <= n /\ (r + 1) * (r + 1) > n

data_size == Len(data)

\* let window_size = (target_size as f64).sqrt() as usize
window_size(t) == isqrt(t)

\* A window count rounded up instead of down.
windows_count_ceil(t) == (t + window_size(t) - 1) \div window_size(t)

\* let windows_count = target_size / window_size; only evaluated where
\* window_size > 0.
windows_count(t) == t \div window_size(t)

\* A max_offset that leaves room for one window only.
max_offset_one_window(n, t) ==
  IF n >= window_size(t) THEN n - window_size(t) ELSE 0

\* data_size.saturating_sub(windows_count * window_size)
max_offset(n, t) ==
  IF n >= windows_count(t) * window_size(t)
  THEN n - windows_count(t) * window_size(t)
  ELSE 0

\* windows.sort_unstable(): ascending insertion sort.
RECURSIVE insert_sorted(_, _)
insert_sorted(sorted, x) ==
  IF sorted = << >> THEN << x >>
  ELSE IF x <= Head(sorted) THEN << x >> \o sorted
  ELSE << Head(sorted) >> \o insert_sorted(Tail(sorted), x)

\* A sort that leaves the offsets as drawn.
sort_unstable_skipped(ws) == ws

RECURSIVE sort_unstable(_)
sort_unstable(ws) ==
  IF ws = << >> THEN << >>
  ELSE insert_sorted(sort_unstable(Tail(ws)), Head(ws))

\* for i in 0..windows_count { windows[i] += i * window_size }
shift(ws, w) == [i \in 1..Len(ws) |-> ws[i] + (i - 1) * w]

\* The end of one slice: (offset + window_size).min(data_size)
slice_end(start, w, n) == Min(start + w, n)

\* data[offset..end].to_vec(); Rust panics when offset > end.
slice_ok(bytes, start, w) == start <= slice_end(start, w, Len(bytes))
slice(bytes, start, w) ==
  SubSeq(bytes, start + 1, slice_end(start, w, Len(bytes)))

\* A merge that takes the chunks last to first.
RECURSIVE concat_reversed(_)
concat_reversed(cs) ==
  IF cs = << >> THEN << >> ELSE concat_reversed(Tail(cs)) \o Head(cs)

\* result.extend_from_slice(&chunk) over all chunks, in order.
RECURSIVE concat(_)
concat(cs) == IF cs = << >> THEN << >> ELSE Head(cs) \o concat(Tail(cs))

\* The early return taken on a strict comparison.
is_full_strict == data_size < target_size

\* "if data_size <= target_size": the whole file is returned.
is_full == data_size <= target_size

Ok(bytes, method) ==
  Some([kind |-> "Ok", data |-> bytes, original_size |-> data_size,
        sample_size |-> Len(bytes), method |-> method])
Died(kind) ==
  Some([kind |-> kind, data |-> << >>, original_size |-> data_size,
        sample_size |-> 0, method |-> ""])

\* Lines 381-393: the early return with method "full".
SampleFull ==
  /\ spc = "entry"
  /\ is_full
  /\ sresult' = Ok(data, "full")
  /\ spc' = "done"
  /\ UNCHANGED << data, target_size, windows, chunks >>
  /\ UNCHANGED << cacheVars, streamVars, sessionVars, clientVars, handlerVars, frontVars >>

\* Lines 395-401: window_size, windows_count and max_offset.  The integer
\* division panics when window_size is 0.
SampleParams ==
  /\ spc = "entry"
  /\ ~ is_full
  /\ IF window_size(target_size) = 0
     THEN /\ sresult' = Died("panic: attempt to divide by zero")
          /\ spc' = "done"
     ELSE /\ sresult' = sresult
          /\ spc' = "draw"
  /\ UNCHANGED << data, target_size, windows, chunks >>
  /\ UNCHANGED << cacheVars, streamVars, sessionVars, clientVars, handlerVars, frontVars >>

\* Lines 403-405: one rng.gen_range(0..=max_offset) per window.
SampleDraw ==
  /\ spc = "draw"
  /\ Len(windows) < windows_count(target_size)
  /\ \E o \in 0..max_offset(data_size, target_size) :
       windows' = Append(windows, o)
  /\ UNCHANGED << data, target_size, spc, chunks, sresult >>
  /\ UNCHANGED << cacheVars, streamVars, sessionVars, clientVars, handlerVars, frontVars >>

\* Lines 407-413: sort, then spread the windows apart.
SampleSortShift ==
  /\ spc = "draw"
  /\ Len(windows) = windows_count(target_size)
  /\ windows' = shift(sort_unstable(windows), window_size(target_size))
  /\ spc' = "extract"
  /\ UNCHANGED << data, target_size, chunks, sresult >>
  /\ UNCHANGED << cacheVars, streamVars, sessionVars, clientVars, handlerVars, frontVars >>

\* Lines 415-422: the parallel map over the windows.
SampleExtract ==
  /\ spc = "extract"
  /\ IF \A i \in 1..Len(windows) :
          slice_ok(data, windows[i], window_size(target_size))
     THEN /\ chunks' = [i \in 1..Len(windows) |->
                          slice(data, windows[i], window_size(target_size))]
          /\ spc' = "concat"
          /\ sresult' = sresult
     ELSE /\ chunks' = chunks
          /\ spc' = "done"
          /\ sresult' = Died("panic: slice index starts past its end")
  /\ UNCHANGED << data, target_size, windows >>
  /\ UNCHANGED << cacheVars, streamVars, sessionVars, clientVars, handlerVars, frontVars >>

\* Lines 424-437: concatenate and return with method "uniform".
SampleConcat ==
  /\ spc = "concat"
  /\ sresult' = Ok(concat(chunks), "uniform")
  /\ spc' = "done"
  /\ UNCHANGED << data, target_size, windows, chunks >>
  /\ UNCHANGED << cacheVars, streamVars, sessionVars, clientVars, handlerVars, frontVars >>

\* Files of every size up to MaxDataSize whose bytes are pairwise distinct,
\* so that a byte of the output identifies its position in the file.
FileBytes(n, seed) == [i \in 1..n |-> seed + i]

InitSampler ==
  /\ CacheIdle
  /\ StreamIdle
  /\ SessionIdle
  /\ ClientIdle
  /\ HandlerIdle
  /\ FrontIdle
  /\ \E n \in 0..MaxDataSize, seed \in {10, 100} : data = FileBytes(n, seed)
  /\ target_size \in 0..MaxTarget
  /\ spc = "entry"
  /\ windows = << >>
  /\ chunks = << >>
  /\ sresult = None

NextSampler ==
  \/ SampleFull
  \/ SampleParams
  \/ SampleDraw
  \/ SampleSortShift
  \/ SampleExtract
  \/ SampleConcat

SpecSampler == InitSampler /\ [][NextSampler]_vars

\* ------------------------------------------------------------------------
\* Properties of the sampler (SpecSampler)
\* ------------------------------------------------------------------------
\* The offsets have been sorted and shifted.
Shifted == spc \in {"extract", "concat"} \/ (spc = "done" /\ windows # << >>)

\* The sampling branch with a positive target.
Sampling == target_size > 0 /\ data_size > target_size

\* The floor of the square root of target_size, stated on its own.
IsFloorSqrt(w) == w * w <= target_size /\ (w + 1) * (w + 1) > target_size

\* C4: after the sort-and-shift step the half-open ranges
\* [s_i, s_i + window_size) of the windows are pairwise disjoint, whatever
\* offsets were drawn.
C4_WindowsDisjoint ==
  (Shifted /\ Sampling) =>
    \A w \in 1..target_size :
      IsFloorSqrt(w) =>
        \A i, j \in 1..Len(windows) :
          i # j => (windows[i] + w <= windows[j] \/ windows[j] + w <= windows[i])

\* C4 witness: two equal draws have been shifted to adjacent windows.
C4_Witness ==
  /\ Shifted /\ Sampling
  /\ Len(windows) >= 2
  /\ windows[2] = windows[1] + window_size(target_size)

\* C5: every shifted offset s_i has s_i + window_size <= data_size, so every
\* slice has the full window length and sample ends neither in a panic nor
\* in an error.
C5_WindowsInsideData ==
  Sampling =>
    /\ Shifted =>
         \A w \in 1..target_size :
           IsFloorSqrt(w) =>
             \A i \in 1..Len(windows) : windows[i] + w <= data_size
    /\ \A i \in 1..Len(chunks) : Len(chunks[i]) * Len(chunks[i]) <= target_size
                                 /\ IsFloorSqrt(Len(chunks[i]))
    /\ spc = "done" => sresult[1].kind = "Ok"

\* C5 witness: the last window ends exactly at the end of the data.
C5_Witness ==
  /\ Sampling
  /\ spc = "concat"
  /\ Len(windows) >= 2
  /\ windows[Len(windows)] + window_size(target_size) = data_size

\* C6 as claimed: sample with target_size 0 on a non-empty file returns
\* InvalidSampleSize.
C6_ZeroTargetRejected ==
  (spc = "done" /\ target_size = 0 /\ data_size > 0) =>
    sresult[1].kind = "InvalidSampleSize"

\* C7: when data_size <= target_size, sample returns method "full",
\* sample_size = data_size and the input bytes in the same order.
C7_FullWhenSmall ==
  (spc = "done" /\ data_size <= target_size) =>
    /\ sresult[1].kind = "Ok"
    /\ sresult[1].method = "full"
    /\ sresult[1].sample_size = data_size
    /\ sresult[1].data = data

\* C7 witness: a non-empty file of exactly target_size bytes was returned.
C7_Witness ==
  /\ spc = "done"
  /\ data_size = target_size
  /\ data_size > 0
  /\ sresult[1].method = "full"

\* C8: when target_size > 0 and data_size > target_size, sample returns
\* method "uniform" and floor(target_size / w) * w bytes, w the floor of the
\* square root of target_size; that length is at most target_size, and for
\* target_size 1024 it is 1024.
C8_UniformLength ==
  /\ (spc = "done" /\ Sampling) =>
       /\ sresult[1].kind = "Ok"
       /\ sresult[1].method = "uniform"
       /\ sresult[1].sample_size = Len(sresult[1].data)
       /\ sresult[1].original_size = data_size
       /\ \A w \in 1..target_size :
            IsFloorSqrt(w) =>
              Len(sresult[1].data) = (target_size \div w) * w
       /\ Len(sresult[1].data) <= target_size
  /\ isqrt(1024) = 32
  /\ (1024 \div isqrt(1024)) * isqrt(1024) = 1024

\* C8 witness: a uniform sample shorter than target_size was returned.
C8_Witness ==
  /\ spc = "done"
  /\ Sampling
  /\ sresult[1].method = "uniform"
  /\ Len(sresult[1].data) < target_size

\* C28: for data_size > target_size > 0 the output is the windows one after
\* the other in ascending order of their offsets in the file, which are
\* strictly ascending: window i of the output is data[s_i, s_i +
\* window_size), and the bytes of the output are in their order in the
\* file.
C28_OutputInFileOrder ==
  (spc = "done" /\ Sampling) =>
    LET w == window_size(target_size)
        out == sresult[1].data
    IN  /\ sresult[1].kind = "Ok"
        /\ Len(windows) = windows_count(target_size)
        /\ Len(out) = Len(windows) * w
        /\ \A i \in 1..(Len(windows) - 1) : windows[i] < windows[i + 1]
        /\ \A i \in 1..Len(windows) :
             SubSeq(out, (i - 1) * w + 1, i * w)
               = SubSeq(data, windows[i] + 1, windows[i] + w)
        /\ \A i \in 1..Len(out) : \A j \in 1..Len(out) :
             i < j => out[i] < out[j]

\* C28 witness: three windows with a gap between the first two.
C28_Witness ==
  /\ spc = "done"
  /\ Sampling
  /\ sresult[1].kind = "Ok"
  /\ Len(windows) >= 3
  /\ windows[2] > windows[1] + window_size(target_size)

\* C29 as claimed: the window size the sampler computes is the floor of
\* the square root of the sample size and at least 1, and a call for which
\* the window count would be 0 returns the complete file data.
C29_WindowAtLeastOne ==
  spc = "done" =>
    /\ ~ is_full => /\ IsFloorSqrt(window_size(target_size))
                    /\ window_size(target_size) >= 1
    /\ target_size = 0 => /\ sresult[1].kind = "Ok"
                          /\ sresult[1].data = data

\* ------------------------------------------------------------------------
\* Streaming session (src/server/websocket.rs) and client reassembly
\* (frontend/src/core/WebSocketClient.js, ErrorHandler.js, main.js)
\* ------------------------------------------------------------------------
\* The MessagePack map encoding: a sequence of << key, value >> pairs.
\* field reads one key of a decoded map.
field(packed, name) ==
  LET i == CHOOSE j \in 1..Len(packed) : packed[j][1] = name
  IN  packed[i][2]

\* A chunk end that takes the rest of the sample at once.
chunk_end_unbounded(off, total) == total

\* let end = (offset + CHUNK_SIZE).min(total)
chunk_end(off, total) == Min(off + CHUNK_SIZE, total)

\* A DataMessage whose chunk is always cut from the start of the sample.
data_message_from_start(smp, off, end) ==
  [offset |-> off, total |-> Len(smp), chunk |-> SubSeq(smp, 1, end - off)]

\* protocol::DataMessage { offset, total, chunk: sample[offset..end].to_vec() }
data_message(smp, off, end) ==
  [offset |-> off, total |-> Len(smp), chunk |-> SubSeq(smp, off + 1, end)]

\* rmp_serde::to_vec(&message)
to_vec(message) ==
  << << "offset", message.offset >>,
     << "total", message.total >>,
     << "chunk", message.chunk >> >>

\* The outer envelope { type, id, timestamp, payload }; id and timestamp are
\* read by neither side and are left out.
envelope(type, payload) == << << "type", type >>, << "payload", payload >> >>

\* WebSocketClient.send('control', { command: 'sample', params })
sample_command ==
  envelope("control", << << "command", "sample" >> >>)

\* DataManager.initialize
initialize(totalSize) ==
  [buffer |-> Some([i \in 1..totalSize |-> 0]),
   totalSize |-> totalSize,
   receivedSize |-> 0]

\* Uint8Array.prototype.set(chunk, offset), for a chunk that fits.
buffer_set(buffer, chunk, off) ==
  [i \in 1..Len(buffer) |->
     IF i > off /\ i <= off + Len(chunk) THEN chunk[i - off] ELSE buffer[i]]

\* An addChunk that writes each chunk behind the bytes received so far.
addChunk_by_arrival(d, off, chunk) ==
  IF d.buffer = None
  THEN [dm |-> d, ret |-> "throw"]
  ELSE IF d.receivedSize + Len(chunk) > Len(d.buffer[1])
  THEN [dm |-> d, ret |-> "throw"]
  ELSE LET received == d.receivedSize + Len(chunk)
       IN  [dm |-> [buffer |-> Some(buffer_set(d.buffer[1], chunk,
                                               d.receivedSize)),
                    totalSize |-> d.totalSize,
                    receivedSize |-> received],
            ret |-> IF received >= d.totalSize THEN "true" ELSE "false"]

\* DataManager.addChunk: the DataManager afterwards and what the call did:
\* "true", "false", or "throw".
addChunk(d, off, chunk) ==
  IF d.buffer = None
  THEN [dm |-> d, ret |-> "throw"]
  ELSE IF off + Len(chunk) > Len(d.buffer[1])
  THEN [dm |-> d, ret |-> "throw"]
  ELSE LET received == d.receivedSize + Len(chunk)
       IN  [dm |-> [buffer |-> Some(buffer_set(d.buffer[1], chunk, off)),
                    totalSize |-> d.totalSize,
                    receivedSize |-> received],
            ret |-> IF received >= d.totalSize THEN "true" ELSE "false"]

\* A clear that resets the counters and keeps the buffer.
dm_clear_keeps_buffer(d) ==
  [buffer |-> d.buffer, totalSize |-> 0, receivedSize |-> 0]

\* DataManager.clear
dm_clear(d) == [buffer |-> None, totalSize |-> 0, receivedSize |-> 0]

\* The 'data' handler registered by handleSample: initialize on the first
\* chunk, then addChunk.
on_data(d, payload) ==
  addChunk(IF d.buffer = None THEN initialize(field(payload, "total")) ELSE d,
           field(payload, "offset"),
           field(payload, "chunk"))

\* BinaryVisApp.handleSample on a connected client: disable the button,
\* clear the DataManager, send the sample command.
ClientSample ==
  /\ cstate = "ok"
  /\ button
  /\ button' = FALSE
  /\ dm' = dm_clear(dm)
  /\ complete' = FALSE
  /\ inbound' = Append(inbound, sample_command)
  /\ UNCHANGED << rpc, sample, offset, tx, wire, cstate, served >>
  /\ UNCHANGED << cacheVars, samplerVars, sessionVars, clientVars, handlerVars, frontVars >>

\* recv_task reads a sample command; handle_message obtains the sample from
\* perform_sampling (any byte vector up to MaxSample) and enters
\* stream_sample.
SampleSet == { [i \in 1..n |-> 100 + i] : n \in 0..MaxSample }

RecvSample ==
  /\ rpc = "recv"
  /\ inbound # << >>
  /\ field(Head(inbound), "type") = "control"
  /\ inbound' = Tail(inbound)
  /\ \E smp \in SampleSet :
       /\ sample' = smp
       /\ served' = smp
  /\ offset' = 0
  /\ rpc' = "stream"
  /\ UNCHANGED << tx, wire, dm, button, cstate, complete >>
  /\ UNCHANGED << cacheVars, samplerVars, sessionVars, clientVars, handlerVars, frontVars >>

\* One iteration of the while loop of stream_sample: the send suspends while
\* the channel is full.
StreamChunk ==
  /\ rpc = "stream"
  /\ offset < Len(sample)
  /\ Len(tx) < TX_CAPACITY
  /\ LET end == chunk_end(offset, Len(sample))
     IN  /\ tx' = Append(tx, envelope("data",
                                      to_vec(data_message(sample, offset, end))))
         /\ offset' = end
  /\ UNCHANGED << rpc, inbound, sample, wire, dm, button, cstate, complete,
                  served >>
  /\ UNCHANGED << cacheVars, samplerVars, sessionVars, clientVars, handlerVars, frontVars >>

\* stream_sample returns Ok(()) and recv_task awaits the next frame.
StreamReturn ==
  /\ rpc = "stream"
  /\ offset >= Len(sample)
  /\ rpc' = "recv"
  /\ sample' = << >>
  /\ offset' = 0
  /\ UNCHANGED << inbound, tx, wire, dm, button, cstate, complete, served >>
  /\ UNCHANGED << cacheVars, samplerVars, sessionVars, clientVars, handlerVars, frontVars >>

\* send_task: rx.recv() then sender.send(Message::Binary(data)).
SendTask ==
  /\ tx # << >>
  /\ wire' = Append(wire, Head(tx))
  /\ tx' = Tail(tx)
  /\ UNCHANGED << rpc, inbound, sample, offset, dm, button, cstate, complete,
                  served >>
  /\ UNCHANGED << cacheVars, samplerVars, sessionVars, clientVars, handlerVars, frontVars >>

\* ws.onmessage -> WebSocketClient.handleMessage -> the 'data' handler.  A
\* throw reaches ErrorHandler.handleError, which disconnects; a completed
\* sample fires the onData callback, which enables the button.
ClientReceive ==
  /\ cstate = "ok"
  /\ wire # << >>
  /\ wire' = Tail(wire)
  /\ LET message == Head(wire)
         type == field(message, "type")
     IN  IF type = "error"
         THEN /\ cstate' = "failed"
              /\ UNCHANGED << dm, button, complete >>
         ELSE IF type = "data"
         THEN LET r == on_data(dm, field(message, "payload"))
              IN  IF r.ret = "throw"
                  THEN /\ cstate' = "failed"
                       /\ UNCHANGED << dm, button, complete >>
                  ELSE /\ dm' = r.dm
                       /\ complete' = (complete \/ r.ret = "true")
                       /\ button' = (button \/ r.ret = "true")
                       /\ cstate' = cstate
         ELSE UNCHANGED << dm, button, complete, cstate >>
  /\ UNCHANGED << rpc, inbound, sample, offset, tx, served >>
  /\ UNCHANGED << cacheVars, samplerVars, sessionVars, clientVars, handlerVars, frontVars >>

InitStream ==
  /\ CacheIdle
  /\ SamplerIdle
  /\ SessionIdle
  /\ ClientIdle
  /\ HandlerIdle
  /\ FrontIdle
  /\ rpc = "recv"
  /\ inbound = << >>
  /\ sample = << >>
  /\ offset = 0
  /\ tx = << >>
  /\ wire = << >>
  /\ dm = new_dm
  /\ button = TRUE
  /\ cstate = "ok"
  /\ complete = FALSE
  /\ served = << >>

NextStream ==
  \/ ClientSample
  \/ RecvSample
  \/ StreamChunk
  \/ StreamReturn
  \/ SendTask
  \/ ClientReceive

SpecStream == InitStream /\ [][NextStream]_vars

\* ------------------------------------------------------------------------
\* Properties of streaming and reassembly (SpecStream)
\* ------------------------------------------------------------------------
\* The data frames queued in the channel or on the wire.
FramesInFlight == { tx[i] : i \in 1..Len(tx) } \cup { wire[i] : i \in 1..Len(wire) }

ChunkOf(frame) == field(field(frame, "payload"), "chunk")

C10_ChunkSizeBounded ==
  \A frame \in FramesInFlight :
    field(frame, "type") = "data" =>
      /\ Len(ChunkOf(frame)) >= 1
      /\ Len(ChunkOf(frame)) <= CHUNK_SIZE

\* C10 witness: a full chunk is on the wire and the shorter last chunk of
\* the same sample is queued behind it.
C10_Witness ==
  /\ wire # << >>
  /\ tx # << >>
  /\ Len(ChunkOf(wire[1])) = CHUNK_SIZE
  /\ Len(ChunkOf(tx[Len(tx)])) < CHUNK_SIZE
  /\ Len(ChunkOf(tx[Len(tx)])) >= 1

\* ------------------------------------------------------------------------
\* Sessions: handle_socket, handle_message, perform_sampling, stream_sample
\* (src/server/websocket.rs) over the shared cache and file manager
\* ------------------------------------------------------------------------
\* The file ids of the model: 1 and 2 are stored, 3 is not.
FileIds == {1, 2, 3}

\* The length of a file that fits neither the cache nor the channel.
LargeFile ==
  IF Capacity >= CHUNK_SIZE * TX_CAPACITY
  THEN Capacity + 1
  ELSE CHUNK_SIZE * TX_CAPACITY + 1

\* The upload directory: file 1 has LargeFile bytes, file 2 has two bytes,
\* file 3 does not exist.
StoredFiles ==
  [f \in FileIds |->
     IF f = 1 THEN Some([i \in 1..LargeFile |-> 10 + i])
     ELSE IF f = 2 THEN Some(<< 51, 52 >>)
     ELSE None]

\* The sample_size values a peer asks for: none, less than either file,
\* more than either file.
SampleSizes == {0, 2, LargeFile + 1}

\* The method strings a peer sends.
Methods == {"uniform", "other"}

\* A key that ignores the file id.
make_key_size_only(f, n) == n

\* Cache::make_key: a hash of file_id and sample_size, one key per pair.
make_key(f, n) == f * (LargeFile + 2) + n

has_field(packed, name) == \E j \in 1..Len(packed) : packed[j][1] = name

\* A WebSocket message as recv_task sees it: Binary(data), Close or Err.
Binary(body) == [kind |-> "binary", body |-> body]
CloseFrame == [kind |-> "close", body |-> << >>]
ErrFrame == [kind |-> "error", body |-> << >>]

\* The control frame of WebSocketClient.send('control', {command, params}).
control_frame(n, m) ==
  Binary(envelope("control",
                  << << "command", "sample" >>,
                     << "params", << << "sample_size", n >>,
                                     << "method", m >> >> >> >>))

SampleFrames == { control_frame(n, m) : n \in SampleSizes, m \in Methods }

\* Everything else a peer can send: an unknown command, a sample command
\* without params, a frame of another type, bytes that are no envelope, a
\* close frame, a transport error.
OtherFrames ==
  { Binary(envelope("control", << << "command", "stop" >> >>)),
    Binary(envelope("control", << << "command", "sample" >> >>)),
    Binary(envelope("data", << >>)),
    Binary(<< >>),
    CloseFrame,
    ErrFrame }

\* rmp_serde::from_slice::<protocol::Message>: the envelope decodes when it
\* has a type and a payload.
decodes_message(body) == has_field(body, "type") /\ has_field(body, "payload")

\* message.type_field: a control frame carrying the sample command is a
\* SampleRequest, any other control frame is Control.
type_field(body) ==
  IF field(body, "type") = "control"
  THEN IF /\ has_field(field(body, "payload"), "command")
          /\ field(field(body, "payload"), "command") = "sample"
       THEN "SampleRequest"
       ELSE "Control"
  ELSE "Other"

\* rmp_serde::from_slice::<protocol::SampleRequest>(&message.payload)
decodes_request(payload) ==
  /\ has_field(payload, "params")
  /\ has_field(field(payload, "params"), "sample_size")

sample_request(payload) ==
  [sample_size |-> field(field(payload, "params"), "sample_size"),
   method |-> IF has_field(field(payload, "params"), "method")
              THEN field(field(payload, "params"), "method")
              ELSE ""]

\* handle_control_message: no command but sample is accepted.
handle_control_message(payload) == "InvalidMessage"

\* What handle_message does with one binary frame before any sampling:
\* "SampleRequest" or the error it returns.
dispatch(body) ==
  IF ~ decodes_message(body) THEN "InvalidMessage"
  ELSE IF type_field(body) = "SampleRequest"
  THEN IF decodes_request(field(body, "payload"))
       THEN "SampleRequest"
       ELSE "InvalidMessage"
  ELSE IF type_field(body) = "Control"
  THEN handle_control_message(field(body, "payload"))
  ELSE "InvalidMessage"

\* UniformSampler::sample as a relation: the set of results of one call,
\* one per draw of the offsets; << >> stands for a panic.
sample_of_draw(bytes, t, drawn) ==
  LET w == window_size(t)
      shifted == shift(sort_unstable(drawn), w)
  IN  IF \A i \in 1..Len(shifted) : slice_ok(bytes, shifted[i], w)
      THEN Some(concat([i \in 1..Len(shifted) |-> slice(bytes, shifted[i], w)]))
      ELSE None

sample_outcomes(bytes, t) ==
  IF Len(bytes) <= t THEN { Some(bytes) }
  ELSE IF window_size(t) = 0 THEN { None }
  ELSE { sample_of_draw(bytes, t, drawn) :
           drawn \in [1..windows_count(t) -> 0..max_offset(Len(bytes), t)] }

\* The peer sends a well-formed sample command.
PeerSample(s) ==
  /\ hsock[s] = "running"
  /\ recv_task[s] # "ended"
  /\ quota[s] > 0
  /\ \E frame \in SampleFrames :
       receiver' = [receiver EXCEPT ![s] = Append(@, frame)]
  /\ quota' = [quota EXCEPT ![s] = @ - 1]
  /\ UNCHANGED << files, lock, file_id, hsock, recv_task, send_task, request,
                  streaming, channel, sender, history, cause >>
  /\ UNCHANGED << cacheVars, samplerVars, streamVars, clientVars, handlerVars, frontVars >>

\* The peer sends anything else.
PeerOther(s) ==
  /\ hsock[s] = "running"
  /\ recv_task[s] # "ended"
  /\ quota[s] > 0
  /\ \E frame \in OtherFrames :
       receiver' = [receiver EXCEPT ![s] = Append(@, frame)]
  /\ quota' = [quota EXCEPT ![s] = @ - 1]
  /\ UNCHANGED << files, lock, file_id, hsock, recv_task, send_task, request,
                  streaming, channel, sender, history, cause >>
  /\ UNCHANGED << cacheVars, samplerVars, streamVars, clientVars, handlerVars, frontVars >>

\* A recv_task that takes the next frame while stream_sample is still inside
\* its loop.
RecvFrameWhileStreaming(s) ==
  /\ recv_task[s] \in {"recv", "stream"}
  /\ receiver[s] # << >>
  /\ receiver' = [receiver EXCEPT ![s] = Tail(@)]
  /\ LET frame == Head(receiver[s])
     IN  IF frame.kind = "binary" /\ dispatch(frame.body) = "SampleRequest"
         THEN /\ request' = [request EXCEPT
                   ![s] = Some(sample_request(field(frame.body, "payload")))]
              /\ recv_task' = [recv_task EXCEPT ![s] = "get"]
         ELSE /\ request' = request
              /\ recv_task' = [recv_task EXCEPT ![s] = "ended"]
  /\ UNCHANGED << files, lock, file_id, quota, hsock, send_task, streaming,
                  channel, sender, history, cause >>
  /\ UNCHANGED << cacheVars, samplerVars, streamVars, clientVars, handlerVars, frontVars >>

\* recv_task: receiver.next() yields a frame; a binary frame goes through
\* handle_message up to the call of perform_sampling.  Every error, a close
\* frame and a transport error break out of the loop.
RecvFrame(s) ==
  /\ recv_task[s] = "recv"
  /\ receiver[s] # << >>
  /\ receiver' = [receiver EXCEPT ![s] = Tail(@)]
  /\ LET frame == Head(receiver[s])
         outcome == IF frame.kind = "close" THEN "Close"
                    ELSE IF frame.kind = "error" THEN "TransportError"
                    ELSE dispatch(frame.body)
     IN  IF outcome = "SampleRequest"
         THEN /\ request' = [request EXCEPT
                   ![s] = Some(sample_request(field(frame.body, "payload")))]
              /\ recv_task' = [recv_task EXCEPT ![s] = "get"]
              /\ cause' = cause
         ELSE /\ request' = request
              /\ recv_task' = [recv_task EXCEPT ![s] = "ended"]
              /\ cause' = [cause EXCEPT ![s] =
                   IF outcome = "InvalidMessage"
                   THEN IF ~ decodes_message(frame.body) THEN "InvalidMessage: envelope"
                        ELSE IF type_field(frame.body) = "SampleRequest"
                        THEN "InvalidMessage: payload"
                        ELSE IF type_field(frame.body) = "Control"
                        THEN "InvalidMessage: command"
                        ELSE "InvalidMessage: type"
                   ELSE outcome]
  /\ UNCHANGED << files, lock, file_id, quota, hsock, send_task, streaming,
                  channel, sender, history >>
  /\ UNCHANGED << cacheVars, samplerVars, streamVars, clientVars, handlerVars, frontVars >>

\* The locals of perform_sampling and stream_sample when none is live.
\* steps lists what perform_sampling has done for the request at hand.
no_locals == [mmap |-> << >>, sample |-> << >>, offset |-> 0, steps |-> << >>]

\* The key perform_sampling computes for the request of session s.
cache_key(s) == make_key(file_id[s], request[s][1].sample_size)

\* An entry of history: the request and the sample it was given.
served_entry(s, bytes, hit) ==
  [sample_size |-> request[s][1].sample_size,
   method |-> request[s][1].method,
   key |-> cache_key(s),
   hit |-> hit,
   sample |-> bytes]

\* A guard that is kept when get or put returns.
release_forgotten(s) == s

\* The MutexGuard is dropped at the end of get and of put: the lock is free.
release(s) == 0

\* state.cache.get: store.lock() is acquired.
CacheGetLock(s) ==
  /\ recv_task[s] = "get"
  /\ lock = 0
  /\ lock' = s
  /\ recv_task' = [recv_task EXCEPT ![s] = "get_locked"]
  /\ UNCHANGED << files, file_id, quota, receiver, hsock, send_task, request,
                  streaming, channel, sender, history, cause >>
  /\ UNCHANGED << cacheVars, samplerVars, streamVars, clientVars, handlerVars, frontVars >>

\* A perform_sampling that maps and samples whatever get returned.
after_get_always_maps(hit) == "mmap"

\* "if let Some(cached) = state.cache.get(cache_key) { return Ok(cached) }":
\* a hit leaves perform_sampling for stream_sample, a miss goes on.
after_get(hit) == IF hit THEN "stream" ELSE "mmap"

\* state.cache.get returns and the guard is dropped; a hit returns the
\* cached bytes from perform_sampling, a miss goes on to mmap_file.
CacheGetDone(s) ==
  /\ recv_task[s] = "get_locked"
  /\ lock' = release(s)
  /\ LET r == get(store, cache_key(s))
     IN  /\ store' = r.store
         /\ cpre' = store
         /\ cop' = [name |-> "get", key |-> cache_key(s), bytes |-> << >>,
                    ret |-> r.ret]
         /\ recv_task' = [recv_task EXCEPT ![s] = after_get(r.ret # None)]
         /\ IF r.ret # None
            THEN /\ streaming' = [streaming EXCEPT ![s] =
                       [mmap |-> << >>, sample |-> r.ret[1], offset |-> 0,
                        steps |-> << [name |-> "get", bytes |-> r.ret] >>]]
                 /\ history' = [history EXCEPT
                       ![s] = Append(@, served_entry(s, r.ret[1], TRUE))]
            ELSE /\ streaming' = [streaming EXCEPT ![s].steps =
                       << [name |-> "get", bytes |-> None] >>]
                 /\ history' = history
  /\ UNCHANGED << files, file_id, quota, receiver, hsock, send_task, request,
                  channel, sender, cause >>
  /\ UNCHANGED << samplerVars, streamVars, clientVars, handlerVars, frontVars >>

\* state.file_manager.mmap_file(file_id)?
MapFile(s) ==
  /\ recv_task[s] = "mmap"
  /\ IF files[file_id[s]] = None
     THEN /\ recv_task' = [recv_task EXCEPT ![s] = "ended"]
          /\ cause' = [cause EXCEPT ![s] = "FileNotFound"]
          /\ streaming' = streaming
     ELSE /\ recv_task' = [recv_task EXCEPT ![s] = "sample"]
          /\ cause' = cause
          /\ streaming' = [streaming EXCEPT
                ![s].mmap = files[file_id[s]][1],
                ![s].steps = Append(@, [name |-> "mmap",
                                        bytes |-> files[file_id[s]]])]
  /\ UNCHANGED << files, lock, file_id, quota, receiver, hsock, send_task,
                  request, channel, sender, history >>
  /\ UNCHANGED << cacheVars, samplerVars, streamVars, clientVars, handlerVars, frontVars >>

\* sampler.sample(mmap, sample_size)?  A panic ends the task.
RunSampler(s) ==
  /\ recv_task[s] = "sample"
  /\ \E out \in sample_outcomes(streaming[s].mmap, request[s][1].sample_size) :
       IF out = None
       THEN /\ recv_task' = [recv_task EXCEPT ![s] = "ended"]
            /\ cause' = [cause EXCEPT ![s] = "panic"]
            /\ streaming' = streaming
       ELSE /\ recv_task' = [recv_task EXCEPT ![s] = "put"]
            /\ cause' = cause
            /\ streaming' = [streaming EXCEPT
                  ![s].sample = out[1],
                  ![s].steps = Append(@, [name |-> "sample", bytes |-> out])]
  /\ UNCHANGED << files, lock, file_id, quota, receiver, hsock, send_task,
                  request, channel, sender, history >>
  /\ UNCHANGED << cacheVars, samplerVars, streamVars, clientVars, handlerVars, frontVars >>

\* state.cache.put: store.lock() is acquired.
CachePutLock(s) ==
  /\ recv_task[s] = "put"
  /\ lock = 0
  /\ lock' = s
  /\ recv_task' = [recv_task EXCEPT ![s] = "put_locked"]
  /\ UNCHANGED << files, file_id, quota, receiver, hsock, send_task, request,
                  streaming, channel, sender, history, cause >>
  /\ UNCHANGED << cacheVars, samplerVars, streamVars, clientVars, handlerVars, frontVars >>

\* state.cache.put returns, the guard is dropped and perform_sampling
\* returns result.data.
CachePutDone(s) ==
  /\ recv_task[s] = "put_locked"
  /\ lock' = release(s)
  /\ store' = put(store, cache_key(s), streaming[s].sample)
  /\ cpre' = store
  /\ cop' = [name |-> "put", key |-> cache_key(s),
             bytes |-> streaming[s].sample, ret |-> None]
  /\ streaming' = [streaming EXCEPT
        ![s].mmap = << >>,
        ![s].steps = Append(@, [name |-> "put",
                                bytes |-> Some(streaming[s].sample)])]
  /\ history' = [history EXCEPT
        ![s] = Append(@, served_entry(s, streaming[s].sample, FALSE))]
  /\ recv_task' = [recv_task EXCEPT ![s] = "stream"]
  /\ UNCHANGED << files, file_id, quota, receiver, hsock, send_task, request,
                  channel, sender, cause >>
  /\ UNCHANGED << samplerVars, streamVars, clientVars, handlerVars, frontVars >>

\* A channel that takes a frame however many it holds.
has_room_always(queue) == TRUE

\* mpsc::channel(100): tx.send(packed).await completes when the channel
\* holds fewer frames than its capacity.
has_room(queue) == Len(queue) < TX_CAPACITY

\* One iteration of the loop of stream_sample.  tx.send suspends while the
\* channel is full and fails once send_task has dropped the receiving end.
SessStreamChunk(s) ==
  /\ recv_task[s] = "stream"
  /\ streaming[s].offset < Len(streaming[s].sample)
  /\ IF send_task[s] = "ended"
     THEN /\ recv_task' = [recv_task EXCEPT ![s] = "ended"]
          /\ cause' = [cause EXCEPT ![s] = "ConnectionClosed"]
          /\ UNCHANGED << channel, streaming >>
     ELSE /\ has_room(channel[s])
          /\ LET smp == streaming[s].sample
                 off == streaming[s].offset
                 end == chunk_end(off, Len(smp))
             IN  /\ channel' = [channel EXCEPT ![s] = Append(@,
                       [req |-> Len(history[s]),
                        frame |-> envelope("data",
                                    to_vec(data_message(smp, off, end)))])]
                 /\ streaming' = [streaming EXCEPT ![s].offset = end]
          /\ UNCHANGED << recv_task, cause >>
  /\ UNCHANGED << files, lock, file_id, quota, receiver, hsock, send_task,
                  request, sender, history >>
  /\ UNCHANGED << cacheVars, samplerVars, streamVars, clientVars, handlerVars, frontVars >>

\* A session whose stream_sample returns to an ended task.
SessStreamReturnEnds(s) ==
  /\ recv_task[s] = "stream"
  /\ streaming[s].offset >= Len(streaming[s].sample)
  /\ recv_task' = [recv_task EXCEPT ![s] = "ended"]
  /\ request' = [request EXCEPT ![s] = None]
  /\ streaming' = [streaming EXCEPT ![s] = no_locals]
  /\ UNCHANGED << files, lock, file_id, quota, receiver, hsock, send_task,
                  channel, sender, history, cause >>
  /\ UNCHANGED << cacheVars, samplerVars, streamVars, clientVars, handlerVars, frontVars >>

\* stream_sample returns Ok(()), handle_message returns Ok(()), and the
\* loop of recv_task awaits the next frame.
SessStreamReturn(s) ==
  /\ recv_task[s] = "stream"
  /\ streaming[s].offset >= Len(streaming[s].sample)
  /\ recv_task' = [recv_task EXCEPT ![s] = "recv"]
  /\ request' = [request EXCEPT ![s] = None]
  /\ streaming' = [streaming EXCEPT ![s] = no_locals]
  /\ UNCHANGED << files, lock, file_id, quota, receiver, hsock, send_task,
                  channel, sender, history, cause >>
  /\ UNCHANGED << cacheVars, samplerVars, streamVars, clientVars, handlerVars, frontVars >>

\* A send_task that takes the newest queued frame first.
SendWriteNewest(s) ==
  /\ send_task[s] = "running"
  /\ channel[s] # << >>
  /\ sender' = [sender EXCEPT ![s] = Append(@, channel[s][Len(channel[s])])]
  /\ channel' = [channel EXCEPT ![s] = SubSeq(@, 1, Len(@) - 1)]
  /\ UNCHANGED << files, lock, file_id, quota, receiver, hsock, recv_task,
                  send_task, request, streaming, history, cause >>
  /\ UNCHANGED << cacheVars, samplerVars, streamVars, clientVars, handlerVars, frontVars >>

\* send_task: rx.recv() yields a frame and sender.send writes it.
SendWrite(s) ==
  /\ send_task[s] = "running"
  /\ channel[s] # << >>
  /\ sender' = [sender EXCEPT ![s] = Append(@, Head(channel[s]))]
  /\ channel' = [channel EXCEPT ![s] = Tail(@)]
  /\ UNCHANGED << files, lock, file_id, quota, receiver, hsock, recv_task,
                  send_task, request, streaming, history, cause >>
  /\ UNCHANGED << cacheVars, samplerVars, streamVars, clientVars, handlerVars, frontVars >>

\* send_task: sender.send fails, the loop breaks and rx is dropped with the
\* frames still queued.
SendFail(s) ==
  /\ send_task[s] = "running"
  /\ channel[s] # << >>
  /\ send_task' = [send_task EXCEPT ![s] = "ended"]
  /\ channel' = [channel EXCEPT ![s] = << >>]
  /\ UNCHANGED << files, lock, file_id, quota, receiver, hsock, recv_task,
                  request, streaming, sender, history, cause >>
  /\ UNCHANGED << cacheVars, samplerVars, streamVars, clientVars, handlerVars, frontVars >>

\* send_task: rx.recv() yields None once the channel is empty and both
\* senders (tx of handle_socket, recv_tx of recv_task) are dropped.
SendTaskEnd(s) ==
  /\ send_task[s] = "running"
  /\ channel[s] = << >>
  /\ recv_task[s] = "ended"
  /\ hsock[s] = "returned"
  /\ send_task' = [send_task EXCEPT ![s] = "ended"]
  /\ UNCHANGED << files, lock, file_id, quota, receiver, hsock, recv_task,
                  request, streaming, channel, sender, history, cause >>
  /\ UNCHANGED << cacheVars, samplerVars, streamVars, clientVars, handlerVars, frontVars >>

\* handle_socket: tokio::select! sees one of the two JoinHandles complete
\* and the function returns, dropping the other handle.
HandleSocketReturn(s) ==
  /\ hsock[s] = "running"
  /\ recv_task[s] = "ended" \/ send_task[s] = "ended"
  /\ hsock' = [hsock EXCEPT ![s] = "returned"]
  /\ UNCHANGED << files, lock, file_id, quota, receiver, recv_task, send_task,
                  request, streaming, channel, sender, history, cause >>
  /\ UNCHANGED << cacheVars, samplerVars, streamVars, clientVars, handlerVars, frontVars >>

\* The sessions in Live have been accepted for some file id, each peer may
\* send the given number of frames; the cache is empty.
SessionsAccepted(Live, frames) ==
  /\ files = StoredFiles
  /\ lock = 0
  /\ file_id \in [Sessions -> FileIds \cup {0}]
  /\ \A s \in Sessions : file_id[s] = 0 <=> s \notin Live
  /\ quota = [s \in Sessions |-> IF s \in Live THEN frames ELSE 0]
  /\ receiver = [s \in Sessions |-> << >>]
  /\ hsock = [s \in Sessions |-> IF s \in Live THEN "running" ELSE "idle"]
  /\ recv_task = [s \in Sessions |-> IF s \in Live THEN "recv" ELSE "idle"]
  /\ send_task = [s \in Sessions |-> IF s \in Live THEN "running" ELSE "idle"]
  /\ request = [s \in Sessions |-> None]
  /\ streaming = [s \in Sessions |-> no_locals]
  /\ channel = [s \in Sessions |-> << >>]
  /\ sender = [s \in Sessions |-> << >>]
  /\ history = [s \in Sessions |-> << >>]
  /\ cause = [s \in Sessions |-> "none"]

InitSession ==
  /\ CacheIdle
  /\ SamplerIdle
  /\ StreamIdle
  /\ ClientIdle
  /\ HandlerIdle
  /\ FrontIdle
  /\ SessionsAccepted({1}, MaxFrames)

NextSession ==
  \/ \E s \in Sessions : PeerSample(s)
  \/ \E s \in Sessions : PeerOther(s)
  \/ \E s \in Sessions : RecvFrame(s)
  \/ \E s \in Sessions : CacheGetLock(s)
  \/ \E s \in Sessions : CacheGetDone(s)
  \/ \E s \in Sessions : MapFile(s)
  \/ \E s \in Sessions : RunSampler(s)
  \/ \E s \in Sessions : CachePutLock(s)
  \/ \E s \in Sessions : CachePutDone(s)
  \/ \E s \in Sessions : SessStreamChunk(s)
  \/ \E s \in Sessions : SessStreamReturn(s)
  \/ \E s \in Sessions : SendWrite(s)
  \/ \E s \in Sessions : SendFail(s)
  \/ \E s \in Sessions : SendTaskEnd(s)
  \/ \E s \in Sessions : HandleSocketReturn(s)

SpecSession == InitSession /\ [][NextSession]_vars

\* Two sessions are accepted at once; each peer sends one sample command.
InitShared ==
  /\ CacheIdle
  /\ SamplerIdle
  /\ StreamIdle
  /\ ClientIdle
  /\ HandlerIdle
  /\ FrontIdle
  /\ SessionsAccepted(Sessions, 1)

NextShared ==
  \/ \E s \in Sessions : PeerSample(s)
  \/ \E s \in Sessions : RecvFrame(s)
  \/ \E s \in Sessions : CacheGetLock(s)
  \/ \E s \in Sessions : CacheGetDone(s)
  \/ \E s \in Sessions : MapFile(s)
  \/ \E s \in Sessions : RunSampler(s)
  \/ \E s \in Sessions : CachePutLock(s)
  \/ \E s \in Sessions : CachePutDone(s)
  \/ \E s \in Sessions : SessStreamChunk(s)
  \/ \E s \in Sessions : SessStreamReturn(s)
  \/ \E s \in Sessions : SendWrite(s)
  \/ \E s \in Sessions : SendFail(s)
  \/ \E s \in Sessions : SendTaskEnd(s)
  \/ \E s \in Sessions : HandleSocketReturn(s)

SpecShared == InitShared /\ [][NextShared]_vars

\* ------------------------------------------------------------------------
\* Properties of the sessions
\* ------------------------------------------------------------------------
OffsetOf(frame) == field(field(frame, "payload"), "offset")

TotalOf(frame) == field(field(frame, "payload"), "total")

\* The frames of the r-th served request of session s in a log of the
\* session, in the order of the log.
FramesOf(log, r) ==
  LET picked == SelectSeq(log, LAMBDA e : e.req = r)
  IN  [i \in 1..Len(picked) |-> picked[i].frame]

\* What sender.send has written for request r, and what tx.send has
\* enqueued for it and send_task has not dropped.
Written(s, r) == FramesOf(sender[s], r)

Enqueued(s, r) == FramesOf(sender[s] \o channel[s], r)

Bytes(frames) == concat([i \in 1..Len(frames) |-> ChunkOf(frames[i])])

\* stream_sample is still inside its loop for request r.
InProgress(s, r) == recv_task[s] = "stream" /\ r = Len(history[s])

\* stream_sample has returned for request r and send_task lost no frame.
Streamed(s, r) == send_task[s] = "running" /\ ~ InProgress(s, r)

Delivered(s, r) == Streamed(s, r) /\ Written(s, r) = Enqueued(s, r)

ErrorFrames(s) ==
  Cardinality({ i \in 1..Len(sender[s]) :
                  field(sender[s][i].frame, "type") = "error" })

\* The session is over: handle_socket has returned and nothing is written
\* any more.
Closed(s) == hsock[s] = "returned" /\ send_task[s] = "ended"

\* C11: for one sample of N bytes in one session the chunks reach the wire
\* in ascending offset order: the first offset is 0, each next offset is the
\* previous offset plus the previous chunk length, every frame declares
\* total = N, and once the sample is delivered the chunk lengths sum to N.
C11_ChunksAscending ==
  \A s \in Sessions : \A r \in 1..Len(history[s]) :
    LET fr == Written(s, r)
        N == Len(history[s][r].sample)
    IN  /\ fr # << >> => OffsetOf(fr[1]) = 0
        /\ \A i \in 1..Len(fr) : TotalOf(fr[i]) = N
        /\ \A i \in 1..(Len(fr) - 1) :
             OffsetOf(fr[i + 1]) = OffsetOf(fr[i]) + Len(ChunkOf(fr[i]))
        /\ Len(Bytes(fr)) <= N
        /\ Delivered(s, r) => Len(Bytes(fr)) = N

\* C11 witness: a sample of several chunks has been written completely.
C11_Witness ==
  /\ Len(history[1]) >= 1
  /\ Delivered(1, 1)
  /\ Len(Written(1, 1)) > 1
  /\ Bytes(Written(1, 1)) = history[1][1].sample

\* C12: a session that received a control frame whose command is not
\* "sample" has written exactly one error frame when it is closed.
C12_UnknownCommandOneErrorFrame ==
  \A s \in Sessions :
    (cause[s] = "InvalidMessage: command" /\ Closed(s)) => ErrorFrames(s) = 1

\* C13: a session that failed to decode the envelope or the payload, or
\* whose compute-or-fetch step failed, has written exactly one error frame
\* when it is closed, and its receiving task never reads again.
C13_FailureOneErrorFrame ==
  \A s \in Sessions :
    cause[s] \in { "InvalidMessage: envelope", "InvalidMessage: payload",
                   "FileNotFound", "panic" } =>
      /\ recv_task[s] = "ended"
      /\ Closed(s) => ErrorFrames(s) = 1

\* C14: once handle_socket has returned, neither task of the session runs.
C14_NoDutyOutlivesSession ==
  \A s \in Sessions :
    hsock[s] = "returned" => recv_task[s] = "ended" /\ send_task[s] = "ended"

\* C15: the receiving task only ends for a cause (a close, an error, a
\* closed channel), never because a sample was streamed, and every request
\* whose stream_sample returned has its complete chunk sequence enqueued,
\* however many requests came before it.
C15_BackInOpen ==
  \A s \in Sessions :
    /\ recv_task[s] = "ended" => cause[s] # "none"
    /\ \A r \in 1..Len(history[s]) :
         Streamed(s, r) => Bytes(Enqueued(s, r)) = history[s][r].sample

\* C15 witness: the session is awaiting its next frame after it served
\* MaxFrames requests, the last one in several chunks.
C15_Witness ==
  /\ recv_task[1] = "recv"
  /\ Len(history[1]) = MaxFrames
  /\ \A r \in 1..MaxFrames :
       Delivered(1, r) /\ Bytes(Written(1, r)) = history[1][r].sample
  /\ Len(Written(1, MaxFrames)) > 1

\* C18: a sample larger than the cache capacity is a miss, is streamed
\* completely, and is not stored under its key, so that the same request
\* is a miss again.
C18_OversizedServedNotCached ==
  \A s \in Sessions : \A r \in 1..Len(history[s]) :
    LET e == history[s][r]
    IN  Len(e.sample) > Capacity =>
          /\ ~ e.hit
          /\ e.key \notin DOMAIN store.map
          /\ Streamed(s, r) => Bytes(Enqueued(s, r)) = e.sample

\* C18 witness: the same oversized request was served twice, both times
\* as a miss and both times completely.
C18_Witness ==
  /\ Len(history[1]) = 2
  /\ history[1][1].key = history[1][2].key
  /\ \A r \in 1..2 :
       /\ Len(history[1][r].sample) > Capacity
       /\ ~ history[1][r].hit
       /\ Delivered(1, r)
       /\ Bytes(Written(1, r)) = history[1][r].sample

\* ------------------------------------------------------------------------
\* Properties of sessions that share the cache
\* ------------------------------------------------------------------------
\* tx.send of session s is pending: the channel is full and stream_sample
\* has another chunk to send.
Blocked(s) ==
  /\ recv_task[s] = "stream"
  /\ streaming[s].offset < Len(streaming[s].sample)
  /\ send_task[s] = "running"
  /\ Len(channel[s]) = TX_CAPACITY

\* A step of the task recv_task of session s.
RecvTaskStep(s) ==
  \/ RecvFrame(s)
  \/ CacheGetLock(s)
  \/ CacheGetDone(s)
  \/ MapFile(s)
  \/ RunSampler(s)
  \/ CachePutLock(s)
  \/ CachePutDone(s)
  \/ SessStreamChunk(s)
  \/ SessStreamReturn(s)

\* The tokio runtime runs every task that can take a step.  Nothing makes
\* the peer of session 1 read: its sender.send may stay pending for ever.
FairShared ==
  /\ \A s \in Sessions : WF_vars(RecvTaskStep(s))
  /\ \A s \in Sessions \ {1} : WF_vars(SendWrite(s))

\* Two sessions are accepted and the sample command of each peer has
\* arrived: session 1 asks for the whole of file 1, session 2 for the whole
\* of any file.  The peers send nothing more.
InitStalled ==
  /\ CacheIdle
  /\ SamplerIdle
  /\ StreamIdle
  /\ ClientIdle
  /\ HandlerIdle
  /\ FrontIdle
  /\ files = StoredFiles
  /\ lock = 0
  /\ \E f \in FileIds : file_id = [s \in Sessions |-> IF s = 1 THEN 1 ELSE f]
  /\ quota = [s \in Sessions |-> 0]
  /\ receiver = [s \in Sessions |->
                   << control_frame(LargeFile + 1, "uniform") >>]
  /\ hsock = [s \in Sessions |-> "running"]
  /\ recv_task = [s \in Sessions |-> "recv"]
  /\ send_task = [s \in Sessions |-> "running"]
  /\ request = [s \in Sessions |-> None]
  /\ streaming = [s \in Sessions |-> no_locals]
  /\ channel = [s \in Sessions |-> << >>]
  /\ sender = [s \in Sessions |-> << >>]
  /\ history = [s \in Sessions |-> << >>]
  /\ cause = [s \in Sessions |-> "none"]

NextStalled ==
  \/ \E s \in Sessions : RecvFrame(s)
  \/ \E s \in Sessions : CacheGetLock(s)
  \/ \E s \in Sessions : CacheGetDone(s)
  \/ \E s \in Sessions : MapFile(s)
  \/ \E s \in Sessions : RunSampler(s)
  \/ \E s \in Sessions : CachePutLock(s)
  \/ \E s \in Sessions : CachePutDone(s)
  \/ \E s \in Sessions : SessStreamChunk(s)
  \/ \E s \in Sessions : SessStreamReturn(s)
  \/ \E s \in Sessions : SendWrite(s)
  \/ \E s \in Sessions : SendFail(s)
  \/ \E s \in Sessions : SendTaskEnd(s)
  \/ \E s \in Sessions : HandleSocketReturn(s)

SpecStalled == InitStalled /\ [][NextStalled]_vars /\ FairShared

\* C16: a session blocked on its full channel does not hold the cache
\* lock, and whether or not the peer of session 1 ever reads, a sample
\* request of another session leaves perform_sampling and stream_sample.
C16_SlowConsumerBlocksOnlyItself ==
  /\ [](\A s \in Sessions : Blocked(s) => lock # s)
  /\ \A t \in Sessions \ {1} :
       (recv_task[t] = "get") ~> (recv_task[t] \in {"recv", "ended"})

\* C16 witness: session 1 is blocked on its full channel and the request of
\* session 2, received after that, has been streamed completely.
C16_Witness ==
  /\ Blocked(1)
  /\ recv_task[2] = "recv"
  /\ Len(history[2]) = 1
  /\ Delivered(2, 1)
  /\ Bytes(Written(2, 1)) = history[2][1].sample

\* C17: the cache lock is free or held by a session that is inside get or
\* inside put; a session that maps the file, samples or streams does not
\* hold it.
C17_LockOnlyInsideGetOrPut ==
  /\ lock \in Sessions \cup {0}
  /\ \A s \in Sessions :
       lock = s => recv_task[s] \in {"get_locked", "put_locked"}

\* C17 witness: one session is inside put while the other one is in the
\* middle of its sampling computation.
C17_Witness ==
  /\ lock = 2
  /\ recv_task[2] = "put_locked"
  /\ recv_task[1] = "sample"

\* The requests served so far, as pairs of a session and an index of its
\* history.
Served ==
  { p \in Sessions \X (1..MaxFrames) : p[2] <= Len(history[p[1]]) }

EntryOf(p) == history[p[1]][p[2]]

\* C19: two served requests have the same cache key exactly when they have
\* the same file id and the same sample_size, whatever their method; a
\* request served from the cache got the bytes that a request of the same
\* file id and sample_size stored, and every cached entry was stored by
\* such a request.
C19_KeyOnlyFileAndSize ==
  /\ \A p \in Served : \A q \in Served :
       EntryOf(p).key = EntryOf(q).key <=>
         /\ file_id[p[1]] = file_id[q[1]]
         /\ EntryOf(p).sample_size = EntryOf(q).sample_size
  /\ \A p \in Served :
       EntryOf(p).hit =>
         \E q \in Served \ {p} :
           /\ ~ EntryOf(q).hit
           /\ EntryOf(q).key = EntryOf(p).key
           /\ EntryOf(q).sample = EntryOf(p).sample
  /\ \A k \in DOMAIN store.map :
       \E q \in Served :
         /\ ~ EntryOf(q).hit
         /\ EntryOf(q).key = k
         /\ EntryOf(q).sample = store.map[k].data

\* C19 witness: session 2 asked for the same file and sample_size as
\* session 1 with another method string and was served from the cache the
\* sample that session 1 computed.
C19_Witness ==
  /\ Len(history[1]) = 1
  /\ Len(history[2]) = 1
  /\ file_id[1] = file_id[2]
  /\ history[1][1].sample_size = history[2][1].sample_size
  /\ history[1][1].method # history[2][1].method
  /\ ~ history[1][1].hit
  /\ history[2][1].hit
  /\ history[2][1].sample = history[1][1].sample
  /\ history[2][1].key = history[1][1].key

\* ------------------------------------------------------------------------
\* WebSocketClient (src/frontend/src/core/WebSocketClient.js)
\* ------------------------------------------------------------------------
\* What a method or an event handler leaves in last.
outcome(op, threw) ==
  [op |-> op, threw |-> threw,
   open |-> wsock # None /\ sockets[wsock[1]] = "OPEN",
   sent |-> transmitted, queued |-> messageQueue]

\* flushMessageQueue: every queued message is handed to ws.send.
flushMessageQueue(socket) ==
  [i \in 1..Len(messageQueue) |-> << socket, messageQueue[i] >>]

\* connect(): this.ws = new WebSocket(this.url)
connect ==
  /\ calls < MaxConnects
  /\ calls' = calls + 1
  /\ sockets' = Append(sockets, "CONNECTING")
  /\ wsock' = Some(Len(sockets) + 1)
  /\ last' = outcome("connect", FALSE)
  /\ UNCHANGED << messageQueue, transmitted >>
  /\ UNCHANGED << cacheVars, samplerVars, streamVars, sessionVars, handlerVars, frontVars >>

\* ws.onopen of socket i: flushMessageQueue(); resolve()
onopen(i) ==
  /\ sockets[i] = "CONNECTING"
  /\ sockets' = [sockets EXCEPT ![i] = "OPEN"]
  /\ transmitted' = transmitted \o flushMessageQueue(i)
  /\ messageQueue' = << >>
  /\ last' = outcome("onopen", FALSE)
  /\ UNCHANGED << wsock, calls >>
  /\ UNCHANGED << cacheVars, samplerVars, streamVars, sessionVars, handlerVars, frontVars >>

\* ws.onerror of socket i: the error is logged and the promise rejected;
\* the browser closes the socket next.
onerror(i) ==
  /\ sockets[i] \in {"CONNECTING", "OPEN"}
  /\ sockets' = [sockets EXCEPT ![i] = "CLOSING"]
  /\ last' = outcome("onerror", FALSE)
  /\ UNCHANGED << wsock, messageQueue, calls, transmitted >>
  /\ UNCHANGED << cacheVars, samplerVars, streamVars, sessionVars, handlerVars, frontVars >>

\* An onclose handler that connects again.
onclose_reconnects(i) ==
  /\ sockets[i] \in {"CONNECTING", "OPEN", "CLOSING"}
  /\ sockets' = Append([sockets EXCEPT ![i] = "CLOSED"], "CONNECTING")
  /\ wsock' = Some(Len(sockets) + 1)
  /\ last' = outcome("onclose", FALSE)
  /\ UNCHANGED << messageQueue, calls, transmitted >>
  /\ UNCHANGED << cacheVars, samplerVars, streamVars, sessionVars, handlerVars, frontVars >>

\* ws.onclose of socket i: this.ws = null
onclose(i) ==
  /\ sockets[i] \in {"CONNECTING", "OPEN", "CLOSING"}
  /\ sockets' = [sockets EXCEPT ![i] = "CLOSED"]
  /\ wsock' = None
  /\ last' = outcome("onclose", FALSE)
  /\ UNCHANGED << messageQueue, calls, transmitted >>
  /\ UNCHANGED << cacheVars, samplerVars, streamVars, sessionVars, handlerVars, frontVars >>

\* send(type, payload): the packed message goes to ws.send when this.ws is
\* set and OPEN, otherwise 'WebSocket not connected' is thrown.
send(n, m) ==
  LET packed == control_frame(n, m).body
  IN  /\ Len(transmitted) < MaxSends
      /\ IF wsock # None /\ sockets[wsock[1]] = "OPEN"
         THEN /\ transmitted' = Append(transmitted, << wsock[1], packed >>)
              /\ last' = outcome("send", FALSE)
         ELSE /\ transmitted' = transmitted
              /\ last' = outcome("send", TRUE)
      /\ UNCHANGED << wsock, messageQueue, calls, sockets >>
      /\ UNCHANGED << cacheVars, samplerVars, streamVars, sessionVars, handlerVars, frontVars >>

\* disconnect(): if (this.ws) { this.ws.close(); this.ws = null }
disconnect ==
  /\ IF wsock # None
     THEN /\ sockets' = [sockets EXCEPT ![wsock[1]] =
                           IF @ = "CLOSED" THEN "CLOSED" ELSE "CLOSING"]
          /\ wsock' = None
     ELSE UNCHANGED << sockets, wsock >>
  /\ last' = outcome("disconnect", FALSE)
  /\ UNCHANGED << messageQueue, calls, transmitted >>
  /\ UNCHANGED << cacheVars, samplerVars, streamVars, sessionVars, handlerVars, frontVars >>

\* new WebSocketClient(url)
InitClient ==
  /\ CacheIdle
  /\ SamplerIdle
  /\ StreamIdle
  /\ SessionIdle
  /\ ClientIdle
  /\ HandlerIdle
  /\ FrontIdle
NextClient ==
  \/ connect
  \/ \E i \in 1..Len(sockets) : onopen(i)
  \/ \E i \in 1..Len(sockets) : onerror(i)
  \/ \E i \in 1..Len(sockets) : onclose(i)
  \/ \E n \in SampleSizes, m \in Methods : send(n, m)
  \/ disconnect

SpecClient == InitClient /\ [][NextClient]_vars

\* C20: a WebSocket is constructed by connect() only, so that there are as
\* many sockets as calls of connect(); once onclose has run the client has
\* no socket; send() throws exactly when this.ws is absent or not OPEN, and
\* a send() that threw has handed nothing to ws.send and queued nothing.
C20_NoRetryNoReconnect ==
  /\ Len(sockets) = calls
  /\ last.op = "onclose" => wsock = None
  /\ messageQueue = << >>
  /\ last.op = "send" =>
       /\ last.threw <=> ~ last.open
       /\ last.threw => transmitted = last.sent /\ messageQueue = last.queued
       /\ ~ last.threw => Len(transmitted) = Len(last.sent) + 1

\* C20 witness: a message was transmitted, the socket closed, and a later
\* send() threw.
C20_Witness ==
  /\ last.op = "send"
  /\ last.threw
  /\ wsock = None
  /\ calls = 1
  /\ sockets = << "CLOSED" >>
  /\ Len(transmitted) = 1

\* ------------------------------------------------------------------------
\* POST /api/sample/:id: sample_file (src/server/handlers.rs)
\* ------------------------------------------------------------------------
\* The sample_size values of the request bodies: below the documented
\* range, inside it, above it.
HttpSizes == 0..(max_sample_size + 1)

\* What the handler answered.
response(id, n, status, bytes, looked_up, sampled) ==
  [op |-> "sample_file", id |-> id, sample_size |-> n, status |-> status,
   data |-> bytes, looked_up |-> looked_up, sampled |-> sampled]

\* "if request.sample_size > state.config.max_sample_size"
size_rejected(n) == n > max_sample_size

\* sample_file: validate, look the key up, on a miss map, sample and put,
\* answer with the data.  A panic of the sampler answers nothing (status 0).
sample_file(id, n) ==
  LET key == make_key(id, n)
      r == get(store, key)
  IN  IF size_rejected(n)
      THEN /\ http' = response(id, n, 400, << >>, FALSE, FALSE)
           /\ UNCHANGED cacheVars
      ELSE IF r.ret # None
      THEN /\ http' = response(id, n, 200, r.ret[1], TRUE, FALSE)
           /\ store' = r.store
           /\ cpre' = store
           /\ cop' = [name |-> "get", key |-> key, bytes |-> << >>,
                      ret |-> r.ret]
      ELSE IF files[id] = None
      THEN /\ http' = response(id, n, 404, << >>, TRUE, FALSE)
           /\ store' = r.store
           /\ cpre' = store
           /\ cop' = [name |-> "get", key |-> key, bytes |-> << >>,
                      ret |-> None]
      ELSE \E out \in sample_outcomes(files[id][1], n) :
             IF out = None
             THEN /\ http' = response(id, n, 0, << >>, TRUE, TRUE)
                  /\ store' = r.store
                  /\ cpre' = store
                  /\ cop' = [name |-> "get", key |-> key, bytes |-> << >>,
                             ret |-> None]
             ELSE /\ http' = response(id, n, 200, out[1], TRUE, TRUE)
                  /\ store' = put(r.store, key, out[1])
                  /\ cpre' = r.store
                  /\ cop' = [name |-> "put", key |-> key, bytes |-> out[1],
                             ret |-> None]

SampleFile ==
  /\ \E id \in FileIds, n \in HttpSizes : sample_file(id, n)
  /\ UNCHANGED caller
  /\ UNCHANGED << samplerVars, streamVars, sessionVars, clientVars, frontVars >>

\* The server is up with the stored files and an empty cache.
InitHttp ==
  /\ CacheIdle
  /\ SamplerIdle
  /\ StreamIdle
  /\ ClientIdle
  /\ HandlerIdle
  /\ FrontIdle
  /\ SessionsAccepted({}, 0)

NextHttp == SampleFile

SpecHttp == InitHttp /\ [][NextHttp]_vars

\* C21: a request whose sample_size lies outside [min_sample_size,
\* max_sample_size] is answered 400 before any cache lookup or sampling, and
\* a request inside the range for a stored file is sampled or served from
\* the cache.
C21_OutOfRangeRejected ==
  http.op = "sample_file" =>
    IF http.sample_size < min_sample_size \/ http.sample_size > max_sample_size
    THEN http.status = 400 /\ ~ http.looked_up /\ ~ http.sampled
    ELSE http.looked_up /\ (files[http.id] # None => http.status = 200)

\* ------------------------------------------------------------------------
\* Concurrent callers of the cache: every method body runs between
\* self.store.lock() and the drop of the guard (src/cache/mod.rs)
\* ------------------------------------------------------------------------
\* The session variables other than the lock.
sessionRest == << files, file_id, quota, receiver, hsock, recv_task,
                  send_task, request, streaming, channel, sender, history,
                  cause >>

\* The calls a handler makes: two keys, a short value, one that fills the
\* cache but for one byte, one that exceeds it.
CallKeys == {1, 2}

CallData == { Fill(1, 17), Fill(Capacity - 1, 42), Fill(Capacity + 1, 17) }

CacheCalls ==
  { [name |-> "get", key |-> k, bytes |-> << >>] : k \in CallKeys } \cup
  { [name |-> "put", key |-> k, bytes |-> b] : k \in CallKeys, b \in CallData } \cup
  { [name |-> "clear", key |-> 0, bytes |-> << >>],
    [name |-> "stats", key |-> 0, bytes |-> << >>] }

\* The first writes of a method body: get retains key out of the queue; put
\* removes the old entry, evicts, and inserts into the map when the value
\* fits; clear empties the map; stats writes nothing.
first_half(s, call) ==
  IF call.name = "get"
  THEN IF call.key \in DOMAIN s.map
       THEN [s EXCEPT !.order = retain(s.order, call.key)]
       ELSE s
  ELSE IF call.name = "put"
  THEN LET room == put_evict(put_remove_old(s, call.key), Len(call.bytes))
       IN  IF room.total_size + Len(call.bytes) <= Capacity
           THEN [room EXCEPT !.map = map_insert(room.map, call.key,
                   [data |-> call.bytes, size |-> Len(call.bytes)])]
           ELSE room
  ELSE IF call.name = "clear"
  THEN [s EXCEPT !.map = << >>]
  ELSE s

\* The remaining writes: get pushes key to the back; put pushes key and
\* adds the size when it inserted; clear empties the queue and the counter.
second_half(s, call, wrote) ==
  IF call.name = "get"
  THEN IF wrote THEN [s EXCEPT !.order = Append(s.order, call.key)] ELSE s
  ELSE IF call.name = "put"
  THEN IF wrote
       THEN [s EXCEPT !.order = Append(s.order, call.key),
                      !.total_size = s.total_size + Len(call.bytes)]
       ELSE s
  ELSE IF call.name = "clear"
  THEN [s EXCEPT !.order = << >>, !.total_size = 0]
  ELSE s

\* What the method returns.
returned(s, call) ==
  IF call.name = "get"
  THEN IF call.key \in DOMAIN s.map THEN Some(s.map[call.key].data) ELSE None
  ELSE IF call.name = "stats" THEN Some(stats(s))
  ELSE None

\* What the method does to a store when it runs alone.
applied(s, call) ==
  IF call.name = "get" THEN get(s, call.key).store
  ELSE IF call.name = "put" THEN put(s, call.key, call.bytes)
  ELSE IF call.name = "clear" THEN clear(s)
  ELSE s

\* A handler calls a method of the cache and reaches store.lock().
CallCache(c) ==
  /\ caller[c].pc = "idle"
  /\ \E call \in CacheCalls :
       caller' = [caller EXCEPT ![c] = [pc |-> "lock", call |-> call]]
  /\ UNCHANGED << http, lock, sessionRest >>
  /\ UNCHANGED << cacheVars, samplerVars, streamVars, clientVars, frontVars >>

\* A lock() that returns at once, whoever holds the mutex.
LockTakenUnguarded(c) ==
  /\ caller[c].pc = "lock"
  /\ lock' = c
  /\ caller' = [caller EXCEPT ![c] =
        [pc |-> "locked", call |-> caller[c].call, before |-> store]]
  /\ UNCHANGED << http, sessionRest >>
  /\ UNCHANGED << cacheVars, samplerVars, streamVars, clientVars, frontVars >>

\* self.store.lock().unwrap() returns once the mutex is free.
LockTaken(c) ==
  /\ caller[c].pc = "lock"
  /\ lock = 0
  /\ lock' = c
  /\ caller' = [caller EXCEPT ![c] =
        [pc |-> "locked", call |-> caller[c].call, before |-> store]]
  /\ UNCHANGED << http, sessionRest >>
  /\ UNCHANGED << cacheVars, samplerVars, streamVars, clientVars, frontVars >>

\* The first writes of the method body.
BodyFirst(c) ==
  /\ caller[c].pc = "locked"
  /\ LET call == caller[c].call
         wrote == IF call.name = "get" THEN call.key \in DOMAIN store.map
                  ELSE IF call.name = "put"
                  THEN call.key \in DOMAIN first_half(store, call).map
                  ELSE FALSE
     IN  /\ store' = first_half(store, call)
         /\ caller' = [caller EXCEPT ![c] =
               [pc |-> "writing", call |-> call, before |-> caller[c].before,
                wrote |-> wrote, ret |-> returned(store, call)]]
  /\ UNCHANGED << cpre, cop >>
  /\ UNCHANGED << http, lock, sessionRest >>
  /\ UNCHANGED << samplerVars, streamVars, clientVars, frontVars >>

\* The remaining writes; the method returns and the guard is dropped.
BodyRest(c) ==
  /\ caller[c].pc = "writing"
  /\ store' = second_half(store, caller[c].call, caller[c].wrote)
  /\ cpre' = caller[c].before
  /\ cop' = [name |-> caller[c].call.name, key |-> caller[c].call.key,
             bytes |-> caller[c].call.bytes, ret |-> caller[c].ret]
  /\ lock' = 0
  /\ caller' = [caller EXCEPT ![c] = [pc |-> "idle"]]
  /\ UNCHANGED << http, sessionRest >>
  /\ UNCHANGED << samplerVars, streamVars, clientVars, frontVars >>

InitLocked ==
  /\ CacheIdle
  /\ SamplerIdle
  /\ StreamIdle
  /\ SessionIdle
  /\ ClientIdle
  /\ HandlerIdle
  /\ FrontIdle

NextLocked ==
  \/ \E c \in Callers : CallCache(c)
  \/ \E c \in Callers : LockTaken(c)
  \/ \E c \in Callers : BodyFirst(c)
  \/ \E c \in Callers : BodyRest(c)

SpecLocked == InitLocked /\ [][NextLocked]_vars

\* The callers between lock() and the drop of the guard.
InCriticalSection == { c \in Callers : caller[c].pc \in {"locked", "writing"} }

\* C25: at most one caller is inside the critical section, and it is the
\* holder of the lock; whenever no caller is inside, the store is what the
\* last completed operation makes, run alone, of the store it found, its
\* result is the result of that run, total_size is the sum of the sizes and
\* at most the capacity, and the order queue holds the keys of the map
\* once each.
C25_OperationsAtomic ==
  /\ Cardinality(InCriticalSection) <= 1
  /\ \A c \in InCriticalSection : lock = c
  /\ InCriticalSection = {} =>
       /\ lock = 0
       /\ cop.name # "new" =>
            /\ store = applied(cpre, cop)
            /\ cop.ret = returned(cpre, cop)
       /\ store.total_size = SizeOf(store.map, DOMAIN store.map)
       /\ store.total_size <= Capacity
       /\ { store.order[i] : i \in 1..Len(store.order) } = DOMAIN store.map
       /\ Len(store.order) = Cardinality(DOMAIN store.map)

\* C25 witness: one caller is in the middle of a put that evicted an entry
\* while the other caller waits for the lock with a get of the evicted key.
C25_Witness ==
  /\ caller[1].pc = "writing"
  /\ caller[1].call.name = "put"
  /\ caller[1].wrote
  /\ caller[2].pc = "lock"
  /\ caller[2].call.name = "get"
  /\ caller[2].call.key \in DOMAIN caller[1].before.map
  /\ caller[2].call.key \notin DOMAIN store.map

\* The names of the steps perform_sampling has taken for the request of s.
StepNames(s) ==
  [i \in 1..Len(streaming[s].steps) |-> streaming[s].steps[i].name]

MissSteps == << "get", "mmap", "sample", "put" >>

\* C27: a session that streams after a hit has only called get, and
\* streams the bytes get returned; mapping, sampling and put are taken only
\* after a miss, in that order, and a session that streams after a miss
\* streams the bytes the sampler returned and put stored.
C27_HitSkipsSampling ==
  \A s \in Sessions :
    LET st == streaming[s].steps
    IN  /\ \E n \in 0..Len(MissSteps) : StepNames(s) = SubSeq(MissSteps, 1, n)
        /\ Len(st) > 1 => st[1].bytes = None
        /\ recv_task[s] = "stream" =>
             /\ st # << >>
             /\ Enqueued(s, Len(history[s])) # << >> =>
                  TotalOf(Enqueued(s, Len(history[s]))[1])
                    = Len(streaming[s].sample)
             /\ send_task[s] = "running" =>
                  Bytes(Enqueued(s, Len(history[s])))
                    = SubSeq(streaming[s].sample, 1, streaming[s].offset)
             /\ IF st[1].bytes # None
                THEN /\ Len(st) = 1
                     /\ st[1].bytes = Some(streaming[s].sample)
                     /\ history[s][Len(history[s])].hit
                ELSE /\ StepNames(s) = MissSteps
                     /\ st[3].bytes = Some(streaming[s].sample)
                     /\ st[4].bytes = Some(streaming[s].sample)
                     /\ ~ history[s][Len(history[s])].hit

\* C27 witness: the second request of a session is a hit and its cached
\* bytes have been enqueued completely.
C27_Witness ==
  /\ recv_task[1] = "stream"
  /\ Len(history[1]) = 2
  /\ StepNames(1) = << "get" >>
  /\ ~ history[1][1].hit
  /\ history[1][2].hit
  /\ history[1][2].sample = history[1][1].sample
  /\ streaming[1].offset = Len(streaming[1].sample)
  /\ Bytes(Enqueued(1, 2)) = history[1][1].sample

\* C30: the channel of a session never holds more than TX_CAPACITY frames,
\* no frame enqueued for the request being streamed is missing while
\* send_task runs, and the frames written followed by the frames queued
\* are in the order stream_sample enqueued them: by request, then by
\* offset.
C30_BoundedFifoChannel ==
  \A s \in Sessions :
    LET log == sender[s] \o channel[s]
    IN  /\ Len(channel[s]) <= TX_CAPACITY
        /\ \A i \in 1..(Len(log) - 1) :
             \/ log[i].req < log[i + 1].req
             \/ /\ log[i].req = log[i + 1].req
                /\ OffsetOf(log[i].frame) < OffsetOf(log[i + 1].frame)
        /\ (recv_task[s] = "stream" /\ send_task[s] = "running") =>
             Bytes(Enqueued(s, Len(history[s])))
               = SubSeq(streaming[s].sample, 1, streaming[s].offset)

\* C30 witness: stream_sample is suspended on the full channel after
\* send_task has written the first frames of the sample.
C30_Witness ==
  /\ Blocked(1)
  /\ sender[1] # << >>
  /\ Len(channel[1]) = TX_CAPACITY
  /\ OffsetOf(channel[1][1].frame) > 0

\* ------------------------------------------------------------------------
\* Two samples on one connection (SpecSession)
\* ------------------------------------------------------------------------
\* The requests of the frames enqueued by session s, written or still queued.
RequestsOf(s) ==
  [i \in 1..Len(sender[s] \o channel[s]) |-> (sender[s] \o channel[s])[i].req]

\* C31: within one session the frames of an earlier sample all precede the
\* frames of a later one, and a later request is only taken up once every
\* chunk of the sample before it has been enqueued.
C31_SamplesNeverInterleave ==
  \A s \in Sessions :
    /\ \A i \in 1..Len(RequestsOf(s)) : \A j \in i..Len(RequestsOf(s)) :
         RequestsOf(s)[i] <= RequestsOf(s)[j]
    /\ \A r \in 1..Len(history[s]) :
         Streamed(s, r) =>
           Bytes(Enqueued(s, r)) = history[s][r].sample

\* C31 witness: two samples were served on one connection, the first of
\* several chunks, and frames of both have been written.
C31_Witness ==
  /\ Len(history[1]) = 2
  /\ Len(Written(1, 1)) > 1
  /\ Written(1, 2) # << >>
  /\ Delivered(1, 2)

\* C32: on the streaming path a sample command whose sample_size lies
\* outside [min_sample_size, max_sample_size] produces no data frame.
C32_StreamingRangeEnforced ==
  \A s \in Sessions : \A r \in 1..Len(history[s]) :
    (\/ history[s][r].sample_size < min_sample_size
     \/ history[s][r].sample_size > max_sample_size)
      => Enqueued(s, r) = << >>

\* ------------------------------------------------------------------------
\* Completion at the client (SpecStreamFair)
\* ------------------------------------------------------------------------
\* SpecStream with every duty scheduled: recv_task and send_task are spawned
\* tokio tasks and the client's onmessage runs for every frame that arrives.
\* The user is not obliged to press the sample button.
FairStream ==
  /\ WF_vars(RecvSample)
  /\ WF_vars(StreamChunk)
  /\ WF_vars(StreamReturn)
  /\ WF_vars(SendTask)
  /\ WF_vars(ClientReceive)

SpecStreamFair == InitStream /\ [][NextStream]_vars /\ FairStream

\* C33: once a sample has been requested (the button is disabled and the
\* client has not failed), the DataManager eventually reports completion,
\* for a sample of any length, 0 bytes included.
C33_ServedSampleCompletes ==
  (~ button /\ cstate = "ok") ~> complete

\* ------------------------------------------------------------------------
\* DataManager (frontend/src/core/ErrorHandler.js) called directly
\* ------------------------------------------------------------------------
\* The largest total passed to initialize and the number of addChunk calls
\* made on one buffer.
MaxTotal == 5
MaxCalls == 3

\* The bytes of the sample of a given length.
SampleOf(total) == [i \in 1..total |-> 100 + i]

\* A chunk of a sample: the bytes at [off, off + n).
ChunkAt(off, n) == [i \in 1..n |-> 100 + off + i]

\* The in-range arguments of addChunk for a buffer of a given length.
InRange(total) ==
  { << off, n >> \in (0..total) \X (0..total) : off + n <= total }

call(name, off, chunk, total, ret) ==
  [name |-> name, offset |-> off, chunk |-> chunk, total |-> total,
   ret |-> ret, before |-> dm]

\* dataManager.initialize(totalSize)
DmInitialize ==
  /\ \E total \in 0..MaxTotal :
       /\ dm' = initialize(total)
       /\ dmcall' = call("initialize", 0, << >>, total, "none")
  /\ arrived' = << >>
  /\ complete' = FALSE
  /\ UNCHANGED << rpc, inbound, sample, offset, tx, wire, button, cstate,
                  served >>
  /\ UNCHANGED << app, clients, selects, event >>
  /\ UNCHANGED << cacheVars, samplerVars, sessionVars, clientVars, handlerVars >>

\* dataManager.addChunk(offset, chunk) with in-range arguments; without a
\* buffer it throws whatever the arguments.  A true return has fired the
\* onData callback.
DmAddChunk ==
  /\ Len(arrived) < MaxCalls
  /\ \E a \in InRange(IF dm.buffer = None THEN 1 ELSE dm.totalSize) :
       LET r == addChunk(dm, a[1], ChunkAt(a[1], a[2]))
       IN  /\ dm' = r.dm
           /\ dmcall' = call("addChunk", a[1], ChunkAt(a[1], a[2]),
                             dm.totalSize, r.ret)
           /\ arrived' = IF r.ret = "throw" THEN arrived
                         ELSE Append(arrived, [offset |-> a[1],
                                               chunk |-> ChunkAt(a[1], a[2])])
           /\ complete' = (complete \/ r.ret = "true")
  /\ UNCHANGED << rpc, inbound, sample, offset, tx, wire, button, cstate,
                  served >>
  /\ UNCHANGED << app, clients, selects, event >>
  /\ UNCHANGED << cacheVars, samplerVars, sessionVars, clientVars, handlerVars >>

\* The 'data' handler of handleSample called with a payload
\* { offset, total, chunk }: initialize(payload.total) when there is no
\* buffer, then addChunk.
DmOnData ==
  /\ Len(arrived) < MaxCalls
  /\ \E total \in (IF dm.buffer = None THEN 0..MaxTotal ELSE {dm.totalSize}) :
       \E a \in InRange(total) :
         LET payload == to_vec([offset |-> a[1], total |-> total,
                                chunk |-> ChunkAt(a[1], a[2])])
             r == on_data(dm, payload)
         IN  /\ dm' = r.dm
             /\ dmcall' = call("onData", a[1], ChunkAt(a[1], a[2]), total,
                               r.ret)
             /\ arrived' = Append(IF dm.buffer = None THEN << >> ELSE arrived,
                                  [offset |-> a[1],
                                   chunk |-> ChunkAt(a[1], a[2])])
             /\ complete' = (complete \/ r.ret = "true")
  /\ UNCHANGED << rpc, inbound, sample, offset, tx, wire, button, cstate,
                  served >>
  /\ UNCHANGED << app, clients, selects, event >>
  /\ UNCHANGED << cacheVars, samplerVars, sessionVars, clientVars, handlerVars >>

\* dataManager.clear(), as handleSample and handleFileSelect call it before
\* anything else.
DmClear ==
  /\ dm' = dm_clear(dm)
  /\ dmcall' = call("clear", 0, << >>, 0, "none")
  /\ arrived' = << >>
  /\ complete' = FALSE
  /\ UNCHANGED << rpc, inbound, sample, offset, tx, wire, button, cstate,
                  served >>
  /\ UNCHANGED << app, clients, selects, event >>
  /\ UNCHANGED << cacheVars, samplerVars, sessionVars, clientVars, handlerVars >>

InitDataManager ==
  /\ CacheIdle
  /\ SamplerIdle
  /\ StreamIdle
  /\ SessionIdle
  /\ ClientIdle
  /\ HandlerIdle
  /\ FrontIdle

NextDataManager ==
  \/ DmInitialize
  \/ DmAddChunk
  \/ DmOnData
  \/ DmClear

SpecDataManager == InitDataManager /\ [][NextDataManager]_vars

\* ------------------------------------------------------------------------
\* Properties of the DataManager (SpecDataManager)
\* ------------------------------------------------------------------------
\* The chunks stream_sample cuts a sample of a given length into.
ChunksOf(total) ==
  { [offset |-> off,
     chunk |-> data_message(SampleOf(total), off, chunk_end(off, total)).chunk] :
      off \in { k \in 0..(total - 1) : k % CHUNK_SIZE = 0 } }

Arrived == { arrived[i] : i \in 1..Len(arrived) }

\* The chunks received so far are chunks of one sample, each at most once.
OneSampleInAnyOrder ==
  /\ dm.buffer # None
  /\ arrived # << >>
  /\ Arrived \subseteq ChunksOf(dm.totalSize)
  /\ Cardinality(Arrived) = Len(arrived)

\* The offsets of the buffer (counted from 1) some received chunk has
\* written.
Covered ==
  UNION { (arrived[i].offset + 1)..(arrived[i].offset + Len(arrived[i].chunk)) :
            i \in 1..Len(arrived) }

\* C34: in whatever order the chunks of one sample are passed to addChunk,
\* addChunk returns true on the chunk that arrives last and on no earlier
\* one, and the buffer is then the sample.
C34_ReassemblyByOffset ==
  OneSampleInAnyOrder =>
    /\ dmcall.ret = "true" <=> Arrived = ChunksOf(dm.totalSize)
    /\ complete <=> Arrived = ChunksOf(dm.totalSize)
    /\ Arrived = ChunksOf(dm.totalSize) =>
         dm.buffer = Some(SampleOf(dm.totalSize))

\* C34 witness: the chunks of a sample of several chunks have all arrived,
\* a later chunk first, and completion has been reported.
C34_Witness ==
  /\ OneSampleInAnyOrder
  /\ Len(arrived) >= 2
  /\ arrived[1].offset > 0
  /\ Arrived = ChunksOf(dm.totalSize)
  /\ dmcall.ret = "true"
  /\ dm.buffer = Some(SampleOf(dm.totalSize))

\* C35: addChunk returns true only when every offset of [0, total) has been
\* written by some received chunk.
C35_CompleteOnlyWhenCovered ==
  dmcall.ret = "true" => (1..dm.totalSize) \subseteq Covered

\* C36: addChunk on a DataManager without buffer (never initialized, or
\* cleared) throws, changes nothing and fires no onData; clear leaves no
\* buffer; the first chunk the 'data' handler gets after a clear makes a
\* fresh buffer of the chunk's declared total holding that chunk alone.
C36_NoBufferThrows ==
  /\ dmcall.name = "clear" => dm = new_dm
  /\ dm.buffer = None => ~ complete
  /\ (dmcall.name = "addChunk" /\ dmcall.before.buffer = None) =>
       /\ dmcall.ret = "throw"
       /\ dm = dmcall.before
  /\ (dmcall.name = "onData" /\ dmcall.before.buffer = None) =>
       /\ dm.totalSize = dmcall.total
       /\ dm.receivedSize = Len(dmcall.chunk)
       /\ dm.buffer = Some(buffer_set([i \in 1..dmcall.total |-> 0],
                                      dmcall.chunk, dmcall.offset))

\* C36 witness: addChunk was called on a DataManager without buffer and
\* threw.
C36_Witness ==
  /\ dmcall.name = "addChunk"
  /\ dmcall.before.buffer = None
  /\ dmcall.ret = "throw"
  /\ dm.buffer = None

\* ------------------------------------------------------------------------
\* Sessions while stored files are deleted (SpecFiles)
\* ------------------------------------------------------------------------
\* FileManager::delete_file: fs::remove_file(upload_dir.join(file_id)); an
\* absent file is an error and changes nothing.
DeleteFile(f) ==
  /\ files[f] # None
  /\ files' = [files EXCEPT ![f] = None]
  /\ UNCHANGED << lock, file_id, quota, receiver, hsock, recv_task, send_task,
                  request, streaming, channel, sender, history, cause >>
  /\ UNCHANGED << cacheVars, samplerVars, streamVars, clientVars, handlerVars, frontVars >>

NextFiles ==
  \/ NextSession
  \/ \E f \in FileIds : DeleteFile(f)

SpecFiles == InitSession /\ [][NextFiles]_vars

\* C38: a sample request handled while the stored file of its id does not
\* exist never goes on to stream data frames.
C38_MissingFileNeverServed ==
  [][\A s \in Sessions :
       (recv_task[s] = "get_locked" /\ files[file_id[s]] = None)
         => recv_task'[s] # "stream"]_vars

\* ------------------------------------------------------------------------
\* BinaryVisApp (the main.js with the fingerprint check): handleFileSelect,
\* handleSample, the WebSocketClient of each sample and
\* ErrorHandler.handleError
\* ------------------------------------------------------------------------
\* The files the user selects (a file stands for its fingerprint), the
\* handleFileSelect and handleSample calls of one run, and the frames one
\* connection delivers.
Files == {1, 2}
MaxSelects == 2
MaxClicks == 2
MaxMessages == 2

\* The file_id the server answers for a file, from /check or from /upload.
ServerId(f) == f

\* The sample a connection streams: two chunks.
AppTotal == CHUNK_SIZE + 1

\* The frames a server can send on an open connection: the data chunks of
\* the sample and an error frame.
AppFrames ==
  { envelope("data", to_vec([offset |-> c.offset, total |-> AppTotal,
                             chunk |-> c.chunk])) : c \in ChunksOf(AppTotal) }
    \cup { envelope("error", << << "message", "failed" >> >>) }

\* The variables of SpecStream the application leaves alone.
streamRest == << rpc, inbound, sample, offset, tx, wire, button, cstate,
                served >>

\* new WebSocketClient(wsUrl) followed by connect(): this.ws is the new
\* socket, still connecting, and the promise of connect() is pending.
new_client(id) ==
  [fileId |-> id, ws |-> TRUE, readyState |-> "CONNECTING",
   promise |-> "pending", sent |-> << >>, received |-> 0,
   errored |-> FALSE, late |-> 0]

\* WebSocketClient.disconnect: "if (this.ws) { this.ws.close(); this.ws =
\* null }"; close() on a connecting or open socket starts its closing.
client_disconnect(c) ==
  IF c.ws
  THEN [c EXCEPT !.ws = FALSE,
                 !.readyState = IF @ \in {"CONNECTING", "OPEN"}
                                THEN "CLOSING" ELSE @]
  ELSE c

\* "if (this.wsClient) { this.wsClient.disconnect(); this.wsClient = null }"
disconnect_current(a, cs) ==
  IF a.wsClient = 0 THEN cs
  ELSE [cs EXCEPT ![a.wsClient] = client_disconnect(@)]

\* A handleError that leaves the socket open.
handleError_keeps_socket(a, cs) ==
  [app |-> [a EXCEPT !.animation = FALSE], clients |-> cs]

\* ErrorHandler.handleError: window.renderer.stopAnimation(), then
\* window.wsClient.disconnect(), then the modal and the rethrow.
handleError(a, cs) ==
  [app |-> [a EXCEPT !.animation = FALSE],
   clients |-> IF a.windowWsClient = 0 THEN cs
               ELSE [cs EXCEPT ![a.windowWsClient] = client_disconnect(@)]]

\* WebSocketClient.handleMessage: an error frame throws before any handler
\* is looked up; a data frame goes to the 'data' handler; a frame of another
\* type is logged.
handleMessage(d, message) ==
  IF field(message, "type") = "error"
  THEN [dm |-> d, ret |-> "throw", handled |-> FALSE]
  ELSE IF field(message, "type") = "data"
  THEN [dm |-> on_data(d, field(message, "payload")).dm,
        ret |-> on_data(d, field(message, "payload")).ret,
        handled |-> TRUE]
  ELSE [dm |-> d, ret |-> "ignored", handled |-> FALSE]

\* The files whose handleFileSelect call awaits its check or its upload.
InFlight == { i \in 1..Len(selects) : selects[i].pc \in {"check", "upload"} }

\* WebSocketClient.send on client c: the command goes out when this.ws is
\* an open socket, otherwise send throws.
can_send(c) == c.ws /\ c.readyState = "OPEN"

\* handleFileSelect up to its first await: the button is disabled, the old
\* client disconnected, the DataManager cleared and GET /check issued.
SelectFile ==
  /\ Len(selects) < MaxSelects
  /\ \E f \in Files :
       selects' = Append(selects, [file |-> f, pc |-> "check", checks |-> 1,
                                   uploads |-> 0, answer |-> "none",
                                   result |-> 0, reported |-> FALSE])
  /\ app' = [app EXCEPT !.sampleButton = FALSE, !.wsClient = 0]
  /\ clients' = disconnect_current(app, clients)
  /\ dm' = dm_clear(dm)
  /\ complete' = FALSE
  /\ event' = [name |-> "select", index |-> Len(selects) + 1, before |-> dm]
  /\ UNCHANGED << streamRest, dmcall, arrived >>
  /\ UNCHANGED << cacheVars, samplerVars, sessionVars, clientVars, handlerVars >>

\* The catch block of handleFileSelect: the fingerprint is cleared, the
\* button enabled again and the error handed to ErrorHandler.handleError.
select_failed(i) ==
  LET h == handleError([app EXCEPT !.currentFileFingerprint = 0,
                                   !.sampleButton = TRUE], clients)
  IN  /\ app' = h.app
      /\ clients' = h.clients
      /\ selects' = [selects EXCEPT ![i].pc = "failed", ![i].reported = TRUE]
      /\ event' = [name |-> "select failed", index |-> i, before |-> dm]

\* The file id of the answer becomes current and the button is enabled.
select_done(i, id) ==
  /\ app' = [app EXCEPT !.fileId = id,
                        !.currentFileFingerprint = selects[i].file,
                        !.sampleButton = TRUE]
  /\ clients' = clients
  /\ event' = [name |-> "selected", index |-> i, before |-> dm]

\* A client that uploads whatever the check answered.
check_outcome_uploads_anyway(ok, exists) ==
  IF ~ ok THEN "failed" ELSE "upload"

\* "if (!checkResponse.ok) throw ...; if (checkResult.exists) { ...; return }"
\* and otherwise the upload.
check_outcome(ok, exists) ==
  IF ~ ok THEN "failed"
  ELSE IF exists THEN "exists"
  ELSE "upload"

\* The response of GET /check arrives.
CheckResponds ==
  \E i \in 1..Len(selects) : \E ok \in BOOLEAN : \E exists \in BOOLEAN :
    /\ selects[i].pc = "check"
    /\ ok \/ ~ exists
    /\ LET answer == IF ~ ok THEN "failed"
                     ELSE IF exists THEN "exists" ELSE "absent"
       IN  IF check_outcome(ok, exists) = "failed"
           THEN select_failed(i)
           ELSE IF check_outcome(ok, exists) = "exists"
           THEN /\ select_done(i, ServerId(selects[i].file))
                /\ selects' = [selects EXCEPT ![i].pc = "exists",
                                              ![i].answer = answer,
                                              ![i].result = ServerId(selects[i].file)]
           ELSE /\ selects' = [selects EXCEPT ![i].pc = "upload",
                                              ![i].answer = answer,
                                              ![i].uploads = @ + 1]
                /\ event' = [name |-> "upload", index |-> i, before |-> dm]
                /\ UNCHANGED << app, clients >>
    /\ UNCHANGED << streamRest, dm, complete, dmcall, arrived >>
    /\ UNCHANGED << cacheVars, samplerVars, sessionVars, clientVars, handlerVars >>

\* The response of POST /upload arrives.
UploadResponds ==
  \E i \in 1..Len(selects) : \E ok \in BOOLEAN :
    /\ selects[i].pc = "upload"
    /\ IF ok
       THEN /\ select_done(i, ServerId(selects[i].file))
            /\ selects' = [selects EXCEPT ![i].pc = "uploaded",
                                          ![i].result = ServerId(selects[i].file)]
       ELSE select_failed(i)
    /\ UNCHANGED << streamRest, dm, complete, dmcall, arrived >>
    /\ UNCHANGED << cacheVars, samplerVars, sessionVars, clientVars, handlerVars >>

\* A click on the enabled sample button: handleSample up to
\* "await this.wsClient.connect()".  Without a file id it alerts and
\* returns.
ClickSample ==
  /\ app.sampleButton
  /\ IF app.fileId = 0
     THEN /\ ~ app.alerted
          /\ app' = [app EXCEPT !.alerted = TRUE]
          /\ event' = [name |-> "alert", index |-> 0, before |-> dm]
          /\ UNCHANGED << clients, dm, complete >>
     ELSE /\ Len(clients) < MaxClicks
          /\ app' = [app EXCEPT !.sampleButton = FALSE,
                                !.wsClient = Len(clients) + 1,
                                !.windowWsClient = Len(clients) + 1]
          /\ clients' = Append(disconnect_current(app, clients),
                               new_client(app.fileId))
          /\ dm' = dm_clear(dm)
          /\ complete' = FALSE
          /\ event' = [name |-> "sample", index |-> Len(clients) + 1,
                       before |-> dm]
  /\ UNCHANGED << streamRest, dmcall, arrived, selects >>
  /\ UNCHANGED << cacheVars, samplerVars, sessionVars, clientVars, handlerVars >>

\* The catch block of handleSample: the button is enabled and the error
\* handed to ErrorHandler.handleError.
sample_failed(a, cs) == handleError([a EXCEPT !.sampleButton = TRUE], cs)

\* ws.onopen: connect() resolves and handleSample goes on to
\* this.wsClient.send('control', { command: 'sample', ... }).
ConnectOpens ==
  \E k \in 1..Len(clients) :
    /\ clients[k].readyState = "CONNECTING"
    /\ LET opened == [clients EXCEPT ![k].readyState = "OPEN",
                                     ![k].promise = "resolved"]
           t == app.wsClient
       IN  IF t # 0 /\ can_send(opened[t])
           THEN /\ clients' = [opened EXCEPT
                     ![t].sent = Append(@, [fileId |-> opened[t].fileId,
                                            selecting |-> InFlight # {}]),
                     ![t].late = @ + (IF opened[t].errored THEN 1 ELSE 0)]
                /\ app' = app
           ELSE /\ clients' = sample_failed(app, opened).clients
                /\ app' = sample_failed(app, opened).app
    /\ event' = [name |-> "open", index |-> k, before |-> dm]
    /\ UNCHANGED << streamRest, dm, complete, dmcall, arrived, selects >>
    /\ UNCHANGED << cacheVars, samplerVars, sessionVars, clientVars, handlerVars >>

\* The connection attempt fails, by itself or because close() was called
\* on the connecting socket: ws.onerror rejects connect(), the catch block
\* of handleSample runs, and ws.onclose clears this.ws.
ConnectFails ==
  \E k \in 1..Len(clients) :
    /\ clients[k].promise = "pending"
    /\ clients[k].readyState \in {"CONNECTING", "CLOSING"}
    /\ LET closed == [clients EXCEPT ![k].readyState = "CLOSED",
                                     ![k].ws = FALSE,
                                     ![k].promise = "rejected"]
       IN  /\ clients' = sample_failed(app, closed).clients
           /\ app' = sample_failed(app, closed).app
    /\ event' = [name |-> "connect failed", index |-> k, before |-> dm]
    /\ UNCHANGED << streamRest, dm, complete, dmcall, arrived, selects >>
    /\ UNCHANGED << cacheVars, samplerVars, sessionVars, clientVars, handlerVars >>

\* An established connection closes, at the server's wish or at the end of
\* the closing handshake: ws.onclose clears this.ws.
ConnectionCloses ==
  \E k \in 1..Len(clients) :
    /\ clients[k].promise = "resolved"
    /\ clients[k].readyState \in {"OPEN", "CLOSING"}
    /\ clients' = [clients EXCEPT ![k].readyState = "CLOSED", ![k].ws = FALSE]
    /\ event' = [name |-> "close", index |-> k, before |-> dm]
    /\ UNCHANGED << streamRest, dm, complete, dmcall, arrived, app, selects >>
    /\ UNCHANGED << cacheVars, samplerVars, sessionVars, clientVars, handlerVars >>

\* ws.onmessage on an open socket: handleMessage.  A throw is uncaught and
\* reaches ErrorHandler.handleError through the window 'error' event; a
\* chunk that completes the sample fires the onData callback, which sets
\* the visualization (the renderer animates) and enables the button.
OnMessage ==
  \E k \in 1..Len(clients) : \E message \in AppFrames :
    /\ clients[k].readyState = "OPEN"
    /\ clients[k].received < MaxMessages
    /\ LET r == handleMessage(dm, message)
           got == [clients EXCEPT
                     ![k].received = @ + 1,
                     ![k].errored = @ \/ field(message, "type") = "error",
                     ![k].late = @ + (IF clients[k].errored /\ r.handled
                                      THEN 1 ELSE 0)]
       IN  /\ dm' = r.dm
           /\ complete' = (complete \/ r.ret = "true")
           /\ IF r.ret = "throw"
              THEN /\ app' = handleError(app, got).app
                   /\ clients' = handleError(app, got).clients
              ELSE /\ app' = IF r.ret = "true"
                             THEN [app EXCEPT !.animation = TRUE,
                                              !.sampleButton = TRUE]
                             ELSE app
                   /\ clients' = got
           /\ event' = [name |-> IF field(message, "type") = "error"
                                 THEN "error frame"
                                 ELSE IF r.handled THEN "data" ELSE "ignored",
                        index |-> k, before |-> dm]
    /\ UNCHANGED << streamRest, dmcall, arrived, selects >>
    /\ UNCHANGED << cacheVars, samplerVars, sessionVars, clientVars, handlerVars >>

InitApp ==
  /\ CacheIdle
  /\ SamplerIdle
  /\ StreamIdle
  /\ SessionIdle
  /\ ClientIdle
  /\ HandlerIdle
  /\ FrontIdle

NextApp ==
  \/ SelectFile
  \/ CheckResponds
  \/ UploadResponds
  \/ ClickSample
  \/ ConnectOpens
  \/ ConnectFails
  \/ ConnectionCloses
  \/ OnMessage

SpecApp == InitApp /\ [][NextApp]_vars

C39_ButtonDisabledWhileSelecting ==
  /\ InFlight # {} => ~ app.sampleButton
  /\ \A k \in 1..Len(clients) : \A j \in 1..Len(clients[k].sent) :
       ~ clients[k].sent[j].selecting

\* C40: every file selection asks /check once and first; an answer of
\* exists issues no upload and makes the returned file id current; any
\* other answer issues exactly one upload, whose file id becomes current; a
\* failed check or upload clears the current fingerprint, is reported, and
\* nothing is asked again.
C40_CheckBeforeUpload ==
  /\ \A i \in 1..Len(selects) :
       /\ selects[i].checks = 1
       /\ selects[i].pc = "check" => selects[i].uploads = 0
       /\ selects[i].answer = "exists" =>
            selects[i].uploads = 0 /\ selects[i].pc = "exists"
       /\ selects[i].answer = "absent" =>
            selects[i].uploads = 1
       /\ selects[i].pc \in {"upload", "uploaded"} => selects[i].uploads = 1
       /\ selects[i].pc = "failed" =>
            selects[i].reported /\ selects[i].uploads <= 1
       /\ selects[i].reported => selects[i].pc = "failed"
  /\ event.name = "selected" =>
       /\ app.fileId = selects[event.index].result
       /\ app.fileId = ServerId(selects[event.index].file)
       /\ app.currentFileFingerprint = selects[event.index].file
  /\ event.name = "select failed" => app.currentFileFingerprint = 0

\* C40 witness: one selection found its file on the server and uploaded
\* nothing, another has uploaded its file, whose id is current.
C40_Witness ==
  /\ Len(selects) = 2
  /\ selects[1].pc = "exists"
  /\ selects[1].uploads = 0
  /\ selects[2].pc = "uploaded"
  /\ selects[2].uploads = 1
  /\ event.name = "selected"
  /\ event.index = 2
  /\ app.fileId = selects[2].result

====
